---- MODULE Spec2Model ----
(***************************************************************************)
(* A model of adafruit_datetime.py: the proleptic Gregorian calendar       *)
(* arithmetic, and the date, time, datetime and timedelta value types.     *)
(*                                                                         *)
(* The library is a set of value types driven by a client.  The state is   *)
(* the client's registers: the call it made last (op) with its arguments   *)
(* (arg), the object the call constructed or acted on (self), a second     *)
(* operand (other), the value the call returned (ret) and the exception    *)
(* it raised (exc).  Every action is one call of the library, translated   *)
(* from the code of the function it calls.  Only integer arguments are     *)
(* modelled: the float branches of timedelta.__new__ are not.  Where       *)
(* several callers run __hash__ on one object at once, calls holds the     *)
(* position and the local value of each, and an action is one step of one  *)
(* caller.                                                                 *)
(***************************************************************************)
EXTENDS Integers, Sequences, FiniteSets, TLC

VARIABLES op, arg, self, other, ret, exc, next_id, calls, hash_secret

vars == <<op, arg, self, other, ret, exc, next_id, calls, hash_secret>>

\* The names of the arguments of the calls and of the attributes of the
\* objects.  Every record below lists its fields in this order.
FieldOrder ==
    [cls |-> 0, pyval |-> 0, fn |-> 0,
     year |-> 0, month |-> 0, day |-> 0, hour |-> 0, minute |-> 0,
     second |-> 0, microsecond |-> 0, tzinfo |-> 0, fold |-> 0,
     days |-> 0, seconds |-> 0, microseconds |-> 0, milliseconds |-> 0,
     minutes |-> 0, hours |-> 0, weeks |-> 0, ordinal |-> 0, offset |-> 0,
     timestamp |-> 0, date_string |-> 0,
     _year |-> 0, _month |-> 0, _day |-> 0, _hour |-> 0, _minute |-> 0,
     _second |-> 0, _microsecond |-> 0, _tzinfo |-> 0, _fold |-> 0,
     _days |-> 0, _seconds |-> 0, _microseconds |-> 0, _hashcode |-> 0,
     id |-> 0, n400 |-> 0, n100 |-> 0, n4 |-> 0, n1 |-> 0, leapyear |-> 0,
     month0 |-> 0, rem |-> 0, pc |-> 0, local |-> 0, result |-> 0]

(***************************************************************************)
(* Bounds of the model.                                                    *)
(***************************************************************************)
\* Years modelled: every year within YearSpan of a pivot year.
YearSpan == 1

\* The first and last year, the 4/100/400-year cycle ends, and the years of
\* the examples of the test suite.
PivotYears == {1, 4, 100, 400, 1900, 2000, 2002, 2004, 2100, 2400, 9999}

YearIn == UNION {(p - YearSpan)..(p + YearSpan) : p \in PivotYears}

MonthIn == 0..13

DayIn == 0..32

\* Durations modelled: the arguments within TdSpan of 0, of a full day, of a
\* full second and of the largest day count, and those of the examples.
TdSpan == 1

Around(c) == (c - TdSpan)..(c + TdSpan)

TdDaysIn == Around(-999999999) \cup Around(0) \cup Around(999999999) \cup {84, 365}

TdSecondsIn == Around(-86400) \cup Around(0) \cup Around(86400) \cup {600}

TdMicrosecondsIn == Around(-1000000) \cup Around(0) \cup Around(1000000)

TdMillisecondsIn == {-1, 0, 1000}

TdMinutesIn == {-1, 0, 50, 1440}

TdHoursIn == {-24, 0, 23}

TdWeeksIn == {-1, 0, 40}

\* Times of day modelled: each field up to TimeSlack outside its range.
TimeSlack == 1

Edges(lo, hi) ==
    (lo - TimeSlack)..lo \cup {(lo + hi) \div 2} \cup hi..(hi + TimeSlack)

\* The callers that run __hash__ on one object at the same time.
NumCallers == 2

Callers == 1..NumCallers

(***************************************************************************)
(* Python values.                                                          *)
(***************************************************************************)
None == [cls |-> "NoneType"]

IntVal(n) == [cls |-> "int", pyval |-> n]

BoolVal(b) == [cls |-> "bool", pyval |-> b]

TupleVal(t) == [cls |-> "tuple", pyval |-> t]

\* The float whole + micro / 10^6, kept as the pair <<whole, micro>>.
FloatVal(whole, micro) == [cls |-> "float", pyval |-> <<whole, micro>>]

\* The value of a call that raised e instead of returning.
Raise(e) == [cls |-> e]

ExcClasses == {"ValueError", "TypeError", "OverflowError", "AssertionError",
               "NotImplementedError", "AttributeError", "KeyError"}

IsExc(x) == x.cls \in ExcClasses

\* divmod with C's truncating division.
divmod_trunc(a, b) ==
    IF a < 0 THEN <<0 - ((0 - a) \div b), 0 - ((0 - a) % b)>>
    ELSE <<a \div b, a % b>>

\* Python's divmod(a, b) for b > 0: floor division and a remainder in 0..b-1.
divmod(a, b) == <<a \div b, a % b>>

(***************************************************************************)
(* Module constants.                                                       *)
(***************************************************************************)
MINYEAR == 1

MAXYEAR == 9999

_MAXORDINAL == 3652059

_DI400Y == 146097

_DI100Y == 36524

_DI4Y == 1461

\* Index 0 of the source's tuples holds None and is never read.
_DAYS_IN_MONTH == <<31, 28, 31, 30, 31, 30, 31, 31, 30, 31, 30, 31>>

_DAYS_BEFORE_MONTH == <<0, 31, 59, 90, 120, 151, 181, 212, 243, 273, 304, 334>>

\* A Python bool used as an integer.
b2i(b) == IF b THEN 1 ELSE 0

(***************************************************************************)
(* Calendar math.                                                          *)
(***************************************************************************)
\* _is_leap without the century rule.
_is_leap_julian(year) == year % 4 = 0

_is_leap(year) == year % 4 = 0 /\ (year % 100 # 0 \/ year % 400 = 0)

\* assert 1 <= month <= 12 is the caller's obligation.
_days_in_month(year, month) ==
    IF month = 2 /\ _is_leap(year) THEN 29 ELSE _DAYS_IN_MONTH[month]

\* _check_date_fields without the upper bound on the year.
_check_date_fields_no_maxyear(year, month, day) ==
    IF ~(MINYEAR <= year) THEN "ValueError"
    ELSE IF ~(1 <= month /\ month <= 12) THEN "ValueError"
    ELSE IF ~(1 <= day /\ day <= _days_in_month(year, month)) THEN "ValueError"
    ELSE "none"

\* "none" when the fields pass, the exception raised otherwise.
_check_date_fields(year, month, day) ==
    IF ~(MINYEAR <= year /\ year <= MAXYEAR) THEN "ValueError"
    ELSE IF ~(1 <= month /\ month <= 12) THEN "ValueError"
    ELSE IF ~(1 <= day /\ day <= _days_in_month(year, month)) THEN "ValueError"
    ELSE "none"

\* _days_before_month without the leap day.
_days_before_month_noleap(year, month) == _DAYS_BEFORE_MONTH[month]

_days_before_month(year, month) ==
    _DAYS_BEFORE_MONTH[month] + b2i(month > 2 /\ _is_leap(year))

\* _days_before_year without the 400-year rule.
_days_before_year_no400(year) ==
    LET y == year - 1
    IN  y * 365 + (y \div 4) - (y \div 100)

_days_before_year(year) ==
    LET y == year - 1
    IN  y * 365 + (y \div 4) - (y \div 100) + (y \div 400)

\* _ymd2ord(year, month, day): the ordinal, or the AssertionError of a month
\* outside 1..12 or of a day outside 1..dim.
_ymd2ord(year, month, day) ==
    IF ~(1 <= month /\ month <= 12) THEN Raise("AssertionError")
    ELSE IF ~(1 <= day /\ day <= _days_in_month(year, month))
    THEN Raise("AssertionError")
    ELSE IntVal(_days_before_year(year) + _days_before_month(year, month)
                + day)

\* The decomposition with the single years counted in 366 days.
_ord2ymd_split_366(n) ==
    LET n0   == n - 1
        n400 == n0 \div _DI400Y
        r400 == n0 % _DI400Y
        n100 == r400 \div _DI100Y
        r100 == r400 % _DI100Y
        n4   == r100 \div _DI4Y
        r4   == r100 % _DI4Y
        n1   == r4 \div 366
        r1   == r4 % 366
    IN  [year |-> n400 * 400 + 1 + n100 * 100 + n4 * 4 + n1,
         n400 |-> n400, n100 |-> n100, n4 |-> n4, n1 |-> n1, rem |-> r1]

\* The 400/100/4/1-year decomposition of n - 1.
_ord2ymd_split(n) ==
    LET n0   == n - 1
        n400 == n0 \div _DI400Y
        r400 == n0 % _DI400Y
        n100 == r400 \div _DI100Y
        r100 == r400 % _DI100Y
        n4   == r100 \div _DI4Y
        r4   == r100 % _DI4Y
        n1   == r4 \div 365
        r1   == r4 % 365
    IN  [year |-> n400 * 400 + 1 + n100 * 100 + n4 * 4 + n1,
         n400 |-> n400, n100 |-> n100, n4 |-> n4, n1 |-> n1, rem |-> r1]

\* _ord2ymd_month with the estimate taken as exact.
_ord2ymd_month_exact(s) ==
    LET leapyear  == s.n1 = 3 /\ (s.n4 # 24 \/ s.n100 = 3)
        month0    == (s.rem + 50) \div 32
        preceding == _DAYS_BEFORE_MONTH[month0] + b2i(month0 > 2 /\ leapyear)
    IN  [month |-> month0, leapyear |-> leapyear, month0 |-> month0,
         rem |-> s.rem - preceding]

\* The month and day of the offset n from January 1 of year.
_ord2ymd_month(s) ==
    LET leapyear  == s.n1 = 3 /\ (s.n4 # 24 \/ s.n100 = 3)
        month0    == (s.rem + 50) \div 32
        preceding0 == _DAYS_BEFORE_MONTH[month0] + b2i(month0 > 2 /\ leapyear)
        over      == preceding0 > s.rem
        month     == IF over THEN month0 - 1 ELSE month0
        preceding == IF over
                     THEN preceding0
                          - (_DAYS_IN_MONTH[month] + b2i(month = 2 /\ leapyear))
                     ELSE preceding0
    IN  [month |-> month, leapyear |-> leapyear, month0 |-> month0,
         rem |-> s.rem - preceding]

\* The tuple (year, month, day), or AssertionError when an assert fails.
_ord2ymd(n) ==
    LET s == _ord2ymd_split(n)
    IN  IF s.n1 = 4 \/ s.n100 = 4
        THEN IF s.rem = 0 THEN TupleVal(<<s.year - 1, 12, 31>>)
             ELSE Raise("AssertionError")
        ELSE LET m == _ord2ymd_month(s)
             IN  IF m.leapyear # _is_leap(s.year) THEN Raise("AssertionError")
                 ELSE IF ~(0 <= m.rem /\ m.rem < _days_in_month(s.year, m.month))
                 THEN Raise("AssertionError")
                 ELSE TupleVal(<<s.year, m.month, m.rem + 1>>)

(***************************************************************************)
(* Shared helpers.                                                         *)
(***************************************************************************)
\* Python's order on tuples of integers of one length: x > y.
RECURSIVE tuple_gt(_, _)
tuple_gt(x, y) ==
    IF x = <<>> THEN FALSE
    ELSE IF Head(x) # Head(y) THEN Head(x) > Head(y)
    ELSE tuple_gt(Tail(x), Tail(y))

_cmp(obj_x, obj_y) ==
    IF obj_x = obj_y THEN 0 ELSE IF tuple_gt(obj_x, obj_y) THEN 1 ELSE -1

(***************************************************************************)
(* class timedelta.  The class defines __new__, total_seconds, __repr__,    *)
(* __str__ and __neg__, and nothing else.                                  *)
(***************************************************************************)
abs(x) == IF x < 0 THEN 0 - x ELSE x

\* The integer branches of lines 429 to 462: seconds and microseconds are
\* carried into d, s and us.  s starts at 0 and the fractions are 0.0.
_td_normalize(d0, seconds0, microseconds0) ==
    LET dm1 == divmod(seconds0, 24 * 3600)
        d1  == d0 + dm1[1]
        s1  == 0 + dm1[2]
        dm2 == divmod(microseconds0, 1000000)
        dm3 == divmod(dm2[1], 24 * 3600)
        d2  == d1 + dm3[1]
        s2  == s1 + dm3[2]
        microseconds == dm2[2]
        dm4 == divmod(microseconds, 1000000)
        s3  == s2 + dm4[1]
        dm5 == divmod(s3, 24 * 3600)
    IN  <<d2 + dm5[1], dm5[2], dm4[2]>>

\* The range check on the positive side only.
_td_overflow_positive(d) == d > 999999999

\* if abs(d) > 999999999: raise OverflowError
_td_overflow(d) == abs(d) > 999999999

timedelta_new(days, seconds, microseconds, milliseconds, minutes, hours, weeks) ==
    LET t == _td_normalize(days + weeks * 7,
                           seconds + minutes * 60 + hours * 3600,
                           microseconds + milliseconds * 1000)
    IN  IF ~(0 <= t[2] /\ t[2] < 24 * 3600) \/ ~(0 <= t[3] /\ t[3] < 1000000)
        THEN Raise("AssertionError")
        ELSE IF _td_overflow(t[1]) THEN Raise("OverflowError")
        ELSE [cls |-> "timedelta", _days |-> t[1], _seconds |-> t[2],
              _microseconds |-> t[3], _hashcode |-> <<-1>>, id |-> 0]

timedelta_neg(d) ==
    timedelta_new(0 - d._days, 0 - d._seconds, 0 - d._microseconds, 0, 0, 0, 0)

\* x == y: the class defines no __eq__, so Python compares the identities.
timedelta_eq(x, y) == x.id = y.id

\* x + y: the class defines no __add__ and no __radd__, so Python raises.
timedelta_add(x, y) == Raise("TypeError")

\* x - y: no __sub__ and no __rsub__.
timedelta_sub(x, y) == Raise("TypeError")

\* x * k and k * x, k an int: no __mul__ and no __rmul__.
timedelta_mul(x, k) == Raise("TypeError")

\* x // k, k an int or a timedelta: no __floordiv__.
timedelta_floordiv(x, k) == Raise("TypeError")

\* x % y: no __mod__.
timedelta_mod(x, y) == Raise("TypeError")

\* d.name: an object holds _days, _seconds, _microseconds and _hashcode, and
\* the class defines no property days, seconds or microseconds.
timedelta_getattr(d, name) ==
    IF name \in {"_days", "_seconds", "_microseconds"}
    THEN IntVal(d[name])
    ELSE IF name = "_hashcode"
    THEN IntVal(IF Len(d[name]) = 1 THEN d[name][1] ELSE d[name])
    ELSE Raise("AttributeError")

\* ((self.days * 86400 + self.seconds) * 10 ** 6 + self.microseconds) / 10 ** 6
timedelta_total_seconds(d) ==
    LET days         == timedelta_getattr(d, "days")
        seconds      == timedelta_getattr(d, "seconds")
        microseconds == timedelta_getattr(d, "microseconds")
    IN  IF IsExc(days) THEN days
        ELSE IF IsExc(seconds) THEN seconds
        ELSE IF IsExc(microseconds) THEN microseconds
        ELSE FloatVal(days.pyval * 86400 + seconds.pyval, microseconds.pyval)

(***************************************************************************)
(* class time and class datetime: the constructors.                        *)
(***************************************************************************)
\* _check_time_fields with microsecond 1000000 let through.
_check_time_fields_us(hour, minute, second, microsecond, fold) ==
    IF ~(0 <= hour /\ hour <= 23) THEN "ValueError"
    ELSE IF ~(0 <= minute /\ minute <= 59) THEN "ValueError"
    ELSE IF ~(0 <= second /\ second <= 59) THEN "ValueError"
    ELSE IF ~(0 <= microsecond /\ microsecond <= 1000000) THEN "ValueError"
    ELSE IF fold \notin {0, 1} THEN "ValueError"
    ELSE "none"

\* "none" when the fields pass, the exception raised otherwise.
_check_time_fields(hour, minute, second, microsecond, fold) ==
    IF ~(0 <= hour /\ hour <= 23) THEN "ValueError"
    ELSE IF ~(0 <= minute /\ minute <= 59) THEN "ValueError"
    ELSE IF ~(0 <= second /\ second <= 59) THEN "ValueError"
    ELSE IF ~(0 <= microsecond /\ microsecond <= 999999) THEN "ValueError"
    ELSE IF fold \notin {0, 1} THEN "ValueError"
    ELSE "none"

time_new(hour, minute, second, microsecond, tzinfo, fold) ==
    IF _check_time_fields(hour, minute, second, microsecond, fold) # "none"
    THEN Raise(_check_time_fields(hour, minute, second, microsecond, fold))
    ELSE [cls |-> "time", _hour |-> hour, _minute |-> minute,
          _second |-> second, _microsecond |-> microsecond,
          _tzinfo |-> tzinfo, _fold |-> fold, _hashcode |-> <<-1>>, id |-> 0]

datetime_new(year, month, day, hour, minute, second, microsecond, tzinfo, fold) ==
    IF _check_date_fields(year, month, day) # "none"
    THEN Raise(_check_date_fields(year, month, day))
    ELSE IF _check_time_fields(hour, minute, second, microsecond, fold) # "none"
    THEN Raise(_check_time_fields(hour, minute, second, microsecond, fold))
    ELSE [cls |-> "datetime", _year |-> year, _month |-> month, _day |-> day,
          _hour |-> hour, _minute |-> minute, _second |-> second,
          _microsecond |-> microsecond, _tzinfo |-> tzinfo, _fold |-> fold,
          _hashcode |-> <<-1>>, id |-> 0]

(***************************************************************************)
(* tzinfo objects and class time: the comparisons.                         *)
(***************************************************************************)
\* FixedOffset(offset, name) of the test suite, a tzinfo subclass: offset is
\* in minutes and __init__ makes the timedelta of it; k is the identity of
\* the object, and of its timedelta.
FixedOffset(offset, k) ==
    [cls |-> "FixedOffset",
     offset |-> [timedelta_new(0, 0, 0, 0, offset, 0, 0) EXCEPT !.id = k],
     id |-> k]

\* FixedOffset.utcoffset(dt)
FixedOffset_utcoffset(tz, dt) == tz.offset

\* x is y, for None and objects.
is_(x, y) ==
    IF x.cls = "NoneType" \/ y.cls = "NoneType" THEN x.cls = y.cls
    ELSE x.id = y.id

\* x == y for two values each None or a timedelta: None compares by
\* identity, and so does timedelta, which defines no __eq__.
offset_eq(x, y) == is_(x, y)

\* timedelta(minutes=1)
timedelta_minute == timedelta_new(0, 0, 0, 0, 1, 0, 0)

\* The rest of _check_utc_offset, rem being offset % timedelta(minutes=1):
\* the remainder would be an object without __bool__ or __len__, which is
\* true.
_check_utc_offset_whole(rem) == IF IsExc(rem) THEN rem.cls ELSE "ValueError"

\* "none" when the offset passes, the exception raised otherwise.
_check_utc_offset(name, offset) ==
    IF offset.cls = "NoneType" THEN "none"
    ELSE IF offset.cls # "timedelta" THEN "TypeError"
    ELSE _check_utc_offset_whole(timedelta_mod(offset, timedelta_minute))

\* The value returned after a check: the exception of the check, or x.
checked(chk, x) ==
    IF IsExc(x) THEN x ELSE IF chk # "none" THEN Raise(chk) ELSE x

\* time.utcoffset() and datetime.utcoffset(): None, the offset, or the
\* exception of the check.
utcoffset(t) ==
    IF t._tzinfo.cls = "NoneType" THEN None
    ELSE checked(_check_utc_offset("utcoffset",
                                   FixedOffset_utcoffset(t._tzinfo, None)),
                 FixedOffset_utcoffset(t._tzinfo, None))

\* time._cmp when the operands are compared field by field.
time_cmp_base(t, o) ==
    IntVal(_cmp(<<t._hour, t._minute, t._second, t._microsecond>>,
                <<o._hour, o._minute, o._second, o._microsecond>>))

\* The end of time._cmp, myq and otq being the offsets in minutes.
time_cmp_minutes(t, o, myq, otq) ==
    IF IsExc(myq) THEN myq
    ELSE IF IsExc(otq) THEN otq
    ELSE IntVal(_cmp(<<t._hour * 60 + t._minute - myq.pyval,
                       t._second, t._microsecond>>,
                     <<o._hour * 60 + o._minute - otq.pyval,
                       o._second, o._microsecond>>))

\* time._cmp for two tzinfo objects, myoff and otoff being the offsets.
time_cmp_offsets(t, o, allow_mixed, myoff, otoff) ==
    IF IsExc(myoff) THEN myoff
    ELSE IF IsExc(otoff) THEN otoff
    ELSE IF offset_eq(myoff, otoff) THEN time_cmp_base(t, o)
    ELSE IF myoff.cls = "NoneType" \/ otoff.cls = "NoneType"
    THEN IF allow_mixed THEN IntVal(2) ELSE Raise("TypeError")
    ELSE time_cmp_minutes(t, o, timedelta_floordiv(myoff, timedelta_minute),
                          timedelta_floordiv(otoff, timedelta_minute))

\* time._cmp with the microsecond left out of the tuples.
time_cmp_no_us(t, o, allow_mixed) ==
    IntVal(_cmp(<<t._hour, t._minute, t._second>>,
                <<o._hour, o._minute, o._second>>))

\* time._cmp: an IntVal, or the exception raised.
time_cmp(t, o, allow_mixed) ==
    IF is_(t._tzinfo, o._tzinfo) THEN time_cmp_base(t, o)
    ELSE time_cmp_offsets(t, o, allow_mixed, utcoffset(t), utcoffset(o))

\* The test a rich comparison makes of the value of _cmp.
cmp_test(f, c) ==
    CASE f = "__eq__" -> c = 0
      [] f = "__ne__" -> c # 0
      [] f = "__lt__" -> c < 0
      [] f = "__le__" -> c <= 0
      [] f = "__gt__" -> c > 0
      [] f = "__ge__" -> c >= 0

\* The value of the rich comparison f, c being the value of _cmp or its
\* exception.
cmp_result(f, c) == IF IsExc(c) THEN c ELSE BoolVal(cmp_test(f, c.pyval))

\* t.f(o) for two times: __eq__ passes allow_mixed=True, and __ne__, which
\* the class leaves to object, inverts __eq__.
time_richcmp(f, t, o) ==
    cmp_result(f, time_cmp(t, o, f \in {"__eq__", "__ne__"}))

(***************************************************************************)
(* class date.                                                             *)
(***************************************************************************)
date_new(year, month, day) ==
    IF _check_date_fields(year, month, day) # "none"
    THEN Raise(_check_date_fields(year, month, day))
    ELSE [cls |-> "date", _year |-> year, _month |-> month, _day |-> day,
          _hashcode |-> <<-1>>, id |-> 0]

\* cls(y, m, d) for the class the classmethod is called on; datetime inherits it.
date_fromordinal(cls, ordinal) ==
    IF ~(ordinal >= 1) THEN Raise("ValueError")
    ELSE LET t == _ord2ymd(ordinal)
         IN  IF IsExc(t) THEN t
             ELSE IF cls = "datetime"
             THEN datetime_new(t.pyval[1], t.pyval[2], t.pyval[3],
                               0, 0, 0, 0, None, 0)
             ELSE date_new(t.pyval[1], t.pyval[2], t.pyval[3])

\* date.toordinal(): the fields of a date pass the asserts of _ymd2ord.
date_toordinal(d) == _ymd2ord(d._year, d._month, d._day).pyval

\* date.weekday() with Sunday as day 0.
date_weekday_sunday(d) == date_toordinal(d) % 7

\* date.weekday(), which datetime inherits: Monday is 0 and Sunday is 6.
date_weekday(d) == (date_toordinal(d) + 6) % 7

\* date.isoweekday(): self.toordinal() % 7 or 7.
date_isoweekday(d) ==
    IF date_toordinal(d) % 7 # 0 THEN date_toordinal(d) % 7 ELSE 7

datetime_toordinal(d) == _ymd2ord(d._year, d._month, d._day).pyval

date_cmp(d, o) ==
    _cmp(<<d._year, d._month, d._day>>, <<o._year, o._month, o._day>>)

date_eq(d, o) == date_cmp(d, o) = 0

date_lt(d, o) == date_cmp(d, o) < 0

(***************************************************************************)
(* class datetime: arithmetic and comparisons.                             *)
(***************************************************************************)
\* The end of datetime.__add__: delta.seconds and delta.days need the
\* properties, and type(self).combine is not defined.
datetime_add_split(a, seconds, days) ==
    IF IsExc(seconds) THEN seconds
    ELSE IF IsExc(days) THEN days
    ELSE IF 0 < days.pyval /\ days.pyval <= _MAXORDINAL
    THEN Raise("AttributeError")
    ELSE Raise("OverflowError")

\* datetime.__add__ after delta += other, total being the sum.
datetime_add_total(a, total) ==
    IF IsExc(total) THEN total
    ELSE datetime_add_split(a, timedelta_getattr(total, "seconds"),
                            timedelta_getattr(total, "days"))

\* delta += other, which needs timedelta.__add__.
datetime_add_delta(a, delta, o) ==
    IF IsExc(delta) THEN delta
    ELSE datetime_add_total(a, timedelta_add(delta, o))

\* datetime.__add__: a datetime, or the exception raised.
datetime_add(a, o) ==
    IF o.cls # "timedelta" THEN Raise("TypeError")
    ELSE datetime_add_delta(a,
                            timedelta_new(datetime_toordinal(a), a._second,
                                          a._microsecond, 0, a._minute,
                                          a._hour, 0),
                            o)

\* self + -other
datetime_add_neg(a, n) == IF IsExc(n) THEN n ELSE datetime_add(a, n)

\* The base of datetime.__sub__ without the hours of the two operands.
datetime_sub_base_nohour(a, o) ==
    timedelta_new(datetime_toordinal(a) - datetime_toordinal(o),
                  (a._second + a._minute * 60) - (o._second + o._minute * 60),
                  a._microsecond - o._microsecond, 0, 0, 0, 0)

\* base = timedelta(days1 - days2, secs1 - secs2, us1 - us2)
datetime_sub_base(a, o) ==
    timedelta_new(datetime_toordinal(a) - datetime_toordinal(o),
                  (a._second + a._minute * 60 + a._hour * 3600)
                  - (o._second + o._minute * 60 + o._hour * 3600),
                  a._microsecond - o._microsecond, 0, 0, 0, 0)

\* base + otoff - myoff
datetime_sub_shift(plus, myoff) ==
    IF IsExc(plus) THEN plus ELSE timedelta_sub(plus, myoff)

\* datetime.__sub__ for two tzinfo objects, myoff and otoff being the offsets.
datetime_sub_offsets(base, myoff, otoff) ==
    IF IsExc(myoff) THEN myoff
    ELSE IF IsExc(otoff) THEN otoff
    ELSE IF offset_eq(myoff, otoff) THEN base
    ELSE IF myoff.cls = "NoneType" \/ otoff.cls = "NoneType"
    THEN Raise("TypeError")
    ELSE datetime_sub_shift(timedelta_add(base, otoff), myoff)

\* datetime.__sub__ for two datetimes, base being the timedelta of the
\* difference of the fields.
datetime_sub_datetime(a, o, base) ==
    IF IsExc(base) THEN base
    ELSE IF is_(a._tzinfo, o._tzinfo) THEN base
    ELSE datetime_sub_offsets(base, utcoffset(a), utcoffset(o))

\* datetime.__sub__, o a datetime or a timedelta.
datetime_sub(a, o) ==
    IF o.cls = "timedelta" THEN datetime_add_neg(a, timedelta_neg(o))
    ELSE IF o.cls # "datetime" THEN Raise("TypeError")
    ELSE datetime_sub_datetime(a, o, datetime_sub_base(a, o))

\* self.replace(fold=...): datetime inherits date.replace(year, month, day),
\* which takes no fold.
datetime_replace_fold(d, fold) == Raise("TypeError")

datetime_fields(d) ==
    <<d._year, d._month, d._day, d._hour, d._minute, d._second, d._microsecond>>

\* datetime._cmp when the operands are compared field by field.
datetime_cmp_base(a, o) == IntVal(_cmp(datetime_fields(a), datetime_fields(o)))

\* The end of datetime._cmp: the sign of diff, days being diff.days.
datetime_cmp_sign(diff, days) ==
    IF IsExc(diff) THEN diff
    ELSE IF IsExc(days) THEN days
    ELSE IF days.pyval < 0 THEN IntVal(-1)
    ELSE IntVal(1)

\* diff = self - other, then diff.days, which needs the property.
datetime_cmp_diff(diff) ==
    IF IsExc(diff) THEN diff
    ELSE datetime_cmp_sign(diff, timedelta_getattr(diff, "days"))

\* datetime._cmp for two tzinfo objects, myoff and otoff being the offsets.
datetime_cmp_offsets(a, o, allow_mixed, myoff, otoff) ==
    IF IsExc(myoff) THEN myoff
    ELSE IF IsExc(otoff) THEN otoff
    ELSE IF allow_mixed THEN datetime_replace_fold(a, 1 - a._fold)
    ELSE IF offset_eq(myoff, otoff) THEN datetime_cmp_base(a, o)
    ELSE IF myoff.cls = "NoneType" \/ otoff.cls = "NoneType"
    THEN Raise("TypeError")
    ELSE datetime_cmp_diff(datetime_sub(a, o))

\* datetime._cmp on the date fields alone, as date._cmp.
datetime_cmp_date_only(a, o, allow_mixed) ==
    IntVal(_cmp(<<a._year, a._month, a._day>>, <<o._year, o._month, o._day>>))

\* datetime._cmp: an IntVal, or the exception raised.
datetime_cmp(a, o, allow_mixed) ==
    IF is_(a._tzinfo, o._tzinfo) THEN datetime_cmp_base(a, o)
    ELSE datetime_cmp_offsets(a, o, allow_mixed, utcoffset(a), utcoffset(o))

\* a.f(o) for two datetimes: __eq__ passes allow_mixed=True, and __ne__,
\* which the class leaves to object, inverts __eq__.
datetime_richcmp(f, a, o) ==
    cmp_result(f, datetime_cmp(a, o, f \in {"__eq__", "__ne__"}))

(***************************************************************************)
(* Hashing.                                                                *)
(***************************************************************************)
\* bytes(xs), xs a list of integers.
bytes(xs) ==
    IF \E i \in 1..Len(xs) : xs[i] < 0 \/ xs[i] > 255 THEN Raise("ValueError")
    ELSE [cls |-> "bytes", pyval |-> xs]

\* The keys the interpreter may draw for its hash of bytes when it starts:
\* the hash of a value is the same all through a run, and differs from run
\* to run.  The hash is many-to-one, and which byte strings collide depends
\* on the key: under key 1 all do, under key 2 those of equal length and
\* equal parities, under key 256 none.
HashSecrets == {1, 2, 256}

\* The keyed hash of the bytes xs, xs not empty: a 64-bit number that the
\* key and the bytes determine, never -1.  The numbers of hash width, the
\* hashes and the _hashcode of the objects, are kept as sequences: <<n>>
\* for a plain n as the -1 of an empty cache, and for this one the key
\* followed by what the key lets through of the bytes.
hash_keyed(key, xs) ==
    IF key = 1 THEN <<key>>
    ELSE <<key>> \o [i \in 1..Len(xs) |-> xs[i] % key]

\* The builtin hash of the bytes xs: 0 for no bytes, and the keyed hash of
\* this run otherwise.
hash_bytes(xs) == IF xs = <<>> THEN <<0>> ELSE hash_keyed(hash_secret, xs)

\* The builtin hash of the 1-tuple (b,), b bytes: a function of hash(b)
\* alone.
hash_tuple1(b) == <<-2>> \o hash_bytes(b)

\* The tuple (b,), or the exception of bytes().
date_getstate_tuple(b) == IF IsExc(b) THEN b ELSE TupleVal(<<b>>)

\* _getstate() with the time of day of a datetime in the bytes, as a
\* datetime._getstate of 10 bytes would give.
date_getstate_time(d) ==
    date_getstate_tuple(
        bytes(IF d.cls = "datetime"
              THEN <<d._year \div 256, d._year % 256, d._month, d._day,
                     d._hour, d._minute, d._second,
                     d._microsecond \div 65536,
                     (d._microsecond \div 256) % 256, d._microsecond % 256>>
              ELSE <<d._year \div 256, d._year % 256, d._month, d._day>>))

\* date._getstate(), which datetime inherits.
date_getstate(d) ==
    date_getstate_tuple(
        bytes(<<d._year \div 256, d._year % 256, d._month, d._day>>))

\* hash(self._getstate()), st being the state
date_hash_state(st) ==
    IF IsExc(st) THEN st ELSE IntVal(hash_tuple1(st.pyval[1].pyval))

\* __hash__ without the state: the hash object would give, by identity.
date_hash_identity(d) == IntVal(d.id)

\* date.__hash__: the value returned, which the object keeps in _hashcode.
date_hash(d) ==
    IF d._hashcode = <<-1>> THEN date_hash_state(date_getstate(d))
    ELSE IntVal(d._hashcode)

\* hash(t._getstate()[0]), st being the state
datetime_hash_state(st) ==
    IF IsExc(st) THEN st ELSE IntVal(hash_bytes(st.pyval[1].pyval))

\* hash(timedelta(days, seconds, self.microsecond) - tzoff)
datetime_hash_aware(total, tzoff) ==
    IF IsExc(total) THEN total ELSE timedelta_sub(total, tzoff)

\* datetime.__hash__ when _hashcode is -1, tzoff being self.utcoffset()
datetime_hash_offset(d, tzoff) ==
    IF IsExc(tzoff) THEN tzoff
    ELSE IF tzoff.cls = "NoneType" THEN datetime_hash_state(date_getstate(d))
    ELSE datetime_hash_aware(
             timedelta_new(_ymd2ord(d._year, d._month, d._day).pyval,
                           d._hour * 3600 + d._minute * 60 + d._second,
                           d._microsecond, 0, 0, 0, 0),
             tzoff)

\* datetime.__hash__
datetime_hash(d) ==
    IF d._hashcode = <<-1>> THEN datetime_hash_offset(d, utcoffset(d))
    ELSE IntVal(d._hashcode)

\* hash(x) for a date or a datetime.
hash(x) == IF x.cls = "datetime" THEN datetime_hash(x) ELSE date_hash(x)

\* x == y for two dates or two datetimes: a BoolVal or the exception.
eq(x, y) ==
    IF x.cls = "datetime" THEN datetime_richcmp("__eq__", x, y)
    ELSE BoolVal(date_eq(x, y))

(***************************************************************************)
(* class time: the attributes, the hash and the methods left for later.    *)
(***************************************************************************)
\* The property time.tzinfo: its body returns self._microsecond.
time_tzinfo(t) == IntVal(t._microsecond)

\* time.replace(*args, **kwargs): def replace() takes no argument, self
\* included, so a call on an object, or with a keyword, raises TypeError
\* before the body runs.
time_replace(args, kwargs) ==
    IF Len(args) # 0 \/ kwargs # {} THEN Raise("TypeError")
    ELSE Raise("NotImplementedError")

\* time.dst(*args): def dst() takes no argument either.
time_dst(args) ==
    IF Len(args) # 0 THEN Raise("TypeError") ELSE Raise("NotImplementedError")

\* time._getstate()[0] with protocol 3: the bytes of the hour, the minute,
\* the second and the three bytes of the microsecond.
time_getstate_base(t) ==
    bytes(<<t._hour, t._minute, t._second, t._microsecond \div 65536,
            (t._microsecond \div 256) % 256, t._microsecond % 256>>)

\* hash(t._getstate()[0]), b being the bytes
time_hash_state(b) == IF IsExc(b) THEN b ELSE IntVal(hash_bytes(b.pyval))

\* divmod(timedelta(hours=self.hour, minutes=self.minute) - tzoff, ...)
time_hash_aware(hm, tzoff) ==
    IF IsExc(hm) THEN hm ELSE timedelta_sub(hm, tzoff)

\* time.__hash__ from tzoff = t.utcoffset() on: a timedelta has no __bool__
\* and no __len__, so "not tzoff" is true of None alone.
time_hash_offset(t, tzoff) ==
    IF IsExc(tzoff) THEN tzoff
    ELSE IF tzoff.cls = "NoneType" THEN time_hash_state(time_getstate_base(t))
    ELSE time_hash_aware(timedelta_new(0, 0, 0, 0, t._minute, t._hour, 0),
                         tzoff)

\* time.__hash__ from t on, t being self or self.replace(fold=0).
time_hash_folded(t) ==
    IF IsExc(t) THEN t ELSE time_hash_offset(t, utcoffset(t))

\* time.__hash__: the value returned, which the object keeps in _hashcode.
time_hash(t) ==
    IF t._hashcode # <<-1>> THEN IntVal(t._hashcode)
    ELSE IF t._fold # 0 THEN time_hash_folded(time_replace(<<t>>, {"fold"}))
    ELSE time_hash_folded(t)

(***************************************************************************)
(* The read-only attributes and isoformat.                                 *)
(***************************************************************************)
\* d.name, d a date: the properties year, month and day.
date_getattr(d, name) ==
    CASE name = "year" -> IntVal(d._year)
      [] name = "month" -> IntVal(d._month)
      [] name = "day" -> IntVal(d._day)
      [] OTHER -> Raise("AttributeError")

\* t.name, t a time: the properties hour, minute, second, microsecond and
\* tzinfo; the class defines no property fold.
time_getattr(t, name) ==
    CASE name = "hour" -> IntVal(t._hour)
      [] name = "minute" -> IntVal(t._minute)
      [] name = "second" -> IntVal(t._second)
      [] name = "microsecond" -> IntVal(t._microsecond)
      [] name = "tzinfo" -> time_tzinfo(t)
      [] OTHER -> Raise("AttributeError")

\* d.name, d a datetime: the properties year to microsecond and tzinfo; the
\* class defines no property fold.
datetime_getattr(d, name) ==
    CASE name = "year" -> IntVal(d._year)
      [] name = "month" -> IntVal(d._month)
      [] name = "day" -> IntVal(d._day)
      [] name = "hour" -> IntVal(d._hour)
      [] name = "minute" -> IntVal(d._minute)
      [] name = "second" -> IntVal(d._second)
      [] name = "microsecond" -> IntVal(d._microsecond)
      [] name = "tzinfo" -> d._tzinfo
      [] OTHER -> Raise("AttributeError")

\* getattr(x, name) for an object of the four classes; the names days,
\* seconds and microseconds are those of timedelta.
getattr(x, name) ==
    CASE x.cls = "date" -> date_getattr(x, name)
      [] x.cls = "time" -> time_getattr(x, name)
      [] x.cls = "datetime" -> datetime_getattr(x, name)
      [] x.cls = "timedelta" -> timedelta_getattr(x, name)

\* A string, kept as the sequence of its characters.
StrVal(chars) == [cls |-> "str", pyval |-> chars]

Digits == <<"0", "1", "2", "3", "4", "5", "6", "7", "8", "9">>

\* "%0<width>d" % n and "{:0<width>d}".format(n), for 0 <= n < 10^width.
RECURSIVE format_0d(_, _)
format_0d(n, width) ==
    IF width = 0 THEN <<>>
    ELSE Append(format_0d(n \div 10, width - 1), Digits[(n % 10) + 1])

\* date.isoformat(), which datetime inherits: "%04d-%02d-%02d"
date_isoformat(d) ==
    StrVal(format_0d(d._year, 4) \o <<"-">> \o format_0d(d._month, 2)
           \o <<"-">> \o format_0d(d._day, 2))

\* _format_time(hh, mm, ss, us) with timespec "auto"
_format_time(hh, mm, ss, us) ==
    format_0d(hh, 2) \o <<":">> \o format_0d(mm, 2) \o <<":">>
    \o format_0d(ss, 2)
    \o (IF us # 0 THEN <<".">> \o format_0d(us, 6) ELSE <<>>)

\* divmod(x, y) of two timedeltas: the class defines no __divmod__.
timedelta_divmod(x, y) == Raise("TypeError")

\* time._tzstr() from if off.days < 0 on, days being off.days: the sign,
\* and then divmod(off, timedelta(hours=1)).
time_tzstr_sign(off, days) ==
    IF IsExc(days) THEN days
    ELSE timedelta_divmod(IF days.pyval < 0 THEN timedelta_neg(off) ELSE off,
                          timedelta_new(0, 0, 0, 0, 0, 1, 0))

\* time._tzstr() from off = self.utcoffset() on: None for None.
time_tzstr(off) ==
    IF IsExc(off) THEN off
    ELSE IF off.cls = "NoneType" THEN None
    ELSE time_tzstr_sign(off, timedelta_getattr(off, "days"))

\* time.isoformat() from tz = self._tzstr() on.
time_isoformat_tz(t, tz) ==
    IF IsExc(tz) THEN tz
    ELSE IF tz.cls = "str"
    THEN StrVal(_format_time(t._hour, t._minute, t._second, t._microsecond)
                \o tz.pyval)
    ELSE StrVal(_format_time(t._hour, t._minute, t._second, t._microsecond))

\* time.isoformat()
time_isoformat(t) == time_isoformat_tz(t, time_tzstr(utcoffset(t)))

\* x.isoformat() for a date, a time or a datetime.
isoformat(x) == IF x.cls = "time" THEN time_isoformat(x) ELSE date_isoformat(x)

(***************************************************************************)
(* Construction from a timestamp or a string, and the methods of date and  *)
(* datetime left for later.                                                *)
(***************************************************************************)
\* date(1970, 1, 1).toordinal(), the day of timestamp 0.
EpochOrdinal == _ymd2ord(1970, 1, 1).pyval

\* The rest of time.localtime, ymd being the date of the day.
localtime_fields(ordinal, secs, ymd) ==
    <<ymd[1], ymd[2], ymd[3], secs \div 3600, (secs % 3600) \div 60,
      secs % 60, (ordinal + 6) % 7, ordinal - _days_before_year(ymd[1]), 0>>

\* time.localtime(timestamp) of the platform, for a local time that is UTC:
\* (year, month, day, hour, minute, second, weekday, yearday, dst).
localtime(timestamp) ==
    localtime_fields(EpochOrdinal + timestamp \div 86400, timestamp % 86400,
                     _ord2ymd(EpochOrdinal + timestamp \div 86400).pyval)

\* cls(y, m, d) with the first three fields of the local time lt.
fromtimestamp_new(cls, lt) ==
    IF cls = "datetime"
    THEN datetime_new(lt[1], lt[2], lt[3], 0, 0, 0, 0, None, 0)
    ELSE date_new(lt[1], lt[2], lt[3])

\* date.fromtimestamp(t) and datetime.fromtimestamp(timestamp)
fromtimestamp(cls, timestamp) == fromtimestamp_new(cls, localtime(timestamp))

\* date.fromisoformat(date_string)
date_fromisoformat(cls, date_string) == Raise("NotImplementedError")

\* datetime.fromisoformat(date_string): the body is pass.
datetime_fromisoformat(cls, date_string) == None

\* date.replace(year, month, day), which datetime inherits.
date_replace(d, year, month, day) == Raise("NotImplementedError")

\* datetime.timetuple()
datetime_timetuple(d) == Raise("NotImplementedError")

(***************************************************************************)
(* The client.  A behaviour is one client expression, evaluated call by    *)
(* call from the initial state: a constructor call, then the calls made on *)
(* the object it returned.                                                 *)
(***************************************************************************)
Init ==
    /\ op = "init"
    /\ arg = [fn |-> "init"]
    /\ self = None
    /\ other = None
    /\ ret = None
    /\ exc = "none"
    /\ next_id = 1
    /\ calls = [c \in Callers |-> [pc |-> "idle", local |-> None,
                                   result |-> None]]
    /\ hash_secret \in HashSecrets

\* object.__new__(cls): r as a new object, of an identity no other object has.
Allocate(r) == [r EXCEPT !.id = next_id]

\* self = cls(...): the object, or the exception and no object.
Construct(fn, a, r) ==
    /\ op' = fn
    /\ arg' = a
    /\ self' = IF IsExc(r) THEN None ELSE Allocate(r)
    /\ exc' = IF IsExc(r) THEN r.cls ELSE "none"
    /\ other' = None
    /\ ret' = None
    /\ next_id' = IF IsExc(r) THEN next_id ELSE next_id + 1
    /\ UNCHANGED <<calls, hash_secret>>

\* other = cls(...) or other = -x: a new object, with self as it is.
ConstructOther(fn, r) ==
    /\ op' = fn
    /\ other' = IF IsExc(r) THEN None ELSE Allocate(r)
    /\ exc' = IF IsExc(r) THEN r.cls ELSE "none"
    /\ ret' = None
    /\ next_id' = IF IsExc(r) THEN next_id ELSE next_id + 1
    /\ UNCHANGED <<arg, self, calls, hash_secret>>

\* ret = f(...), with the operands as they are.
Return(fn, r) ==
    /\ op' = fn
    /\ ret' = IF IsExc(r) THEN None ELSE r
    /\ exc' = IF IsExc(r) THEN r.cls ELSE "none"
    /\ UNCHANGED <<arg, self, other, next_id, calls, hash_secret>>

(***************************************************************************)
(* The calendar client: Spec.                                              *)
(***************************************************************************)
\* The ordinals of the years modelled, those of year 0 and year 10000 included.
OrdinalIn ==
    UNION {(_days_before_year(y) + 1).._days_before_year(y + 1) : y \in YearIn}

\* The second operand of a comparison.
OtherDates ==
    {<<1, 1, 1>>, <<1999, 12, 31>>, <<2000, 2, 28>>, <<2000, 2, 29>>,
     <<2000, 3, 1>>, <<2000, 12, 31>>, <<2001, 1, 1>>, <<9999, 12, 31>>}

\* date(year, month, day)
DateNew ==
    /\ op = "init"
    /\ \E year \in YearIn, month \in MonthIn, day \in DayIn :
        Construct("date",
                  [fn |-> "date", year |-> year, month |-> month, day |-> day],
                  date_new(year, month, day))

\* date.fromordinal(ordinal)
DateFromOrdinal ==
    /\ op = "init"
    /\ \E ordinal \in OrdinalIn :
        Construct("date.fromordinal",
                  [fn |-> "date.fromordinal", ordinal |-> ordinal],
                  date_fromordinal("date", ordinal))

\* datetime.fromordinal(ordinal)
DatetimeFromOrdinal ==
    /\ op = "init"
    /\ \E ordinal \in OrdinalIn :
        Construct("datetime.fromordinal",
                  [fn |-> "datetime.fromordinal", ordinal |-> ordinal],
                  date_fromordinal("datetime", ordinal))

\* self.toordinal()
DateToOrdinal ==
    /\ op \in {"date", "date.fromordinal"}
    /\ self.cls = "date"
    /\ Return("toordinal", IntVal(date_toordinal(self)))

DatetimeToOrdinal ==
    /\ op = "datetime.fromordinal"
    /\ self.cls = "datetime"
    /\ Return("toordinal", IntVal(datetime_toordinal(self)))

\* self.weekday()
DateWeekday ==
    /\ op \in {"date", "date.fromordinal"}
    /\ self.cls = "date"
    /\ Return("weekday", IntVal(date_weekday(self)))

\* self.isoweekday()
DateIsoWeekday ==
    /\ op \in {"date", "date.fromordinal"}
    /\ self.cls = "date"
    /\ Return("isoweekday", IntVal(date_isoweekday(self)))

\* _ymd2ord(year, month, day), on the dates its asserts admit
Ymd2OrdCall ==
    /\ op = "init"
    /\ \E year \in YearIn \cap MINYEAR..MAXYEAR, month \in 1..12, day \in DayIn :
        /\ 1 <= day /\ day <= _days_in_month(year, month)
        /\ op' = "_ymd2ord"
        /\ arg' = [fn |-> "_ymd2ord", year |-> year, month |-> month,
                   day |-> day]
        /\ ret' = _ymd2ord(year, month, day)
        /\ UNCHANGED <<self, other, exc, next_id, calls, hash_secret>>

\* _ord2ymd(n), n the ordinal _ymd2ord returned
Ord2YmdCall ==
    /\ op = "_ymd2ord"
    /\ Return("_ord2ymd", _ord2ymd(ret.pyval))

\* other = date(year, month, day), after self = date(...)
DateNewOther ==
    /\ op = "date"
    /\ self.cls = "date"
    /\ \E t \in OtherDates :
        ConstructOther("date,date", date_new(t[1], t[2], t[3]))

\* self < other
DateLt ==
    /\ op = "date,date"
    /\ other.cls = "date"
    /\ Return("date.__lt__", BoolVal(date_lt(self, other)))

\* self == other
DateEq ==
    /\ op = "date,date"
    /\ other.cls = "date"
    /\ Return("date.__eq__", BoolVal(date_eq(self, other)))

Next ==
    \/ DateNew
    \/ DateFromOrdinal
    \/ DatetimeFromOrdinal
    \/ DateToOrdinal
    \/ DatetimeToOrdinal
    \/ DateWeekday
    \/ DateIsoWeekday
    \/ Ymd2OrdCall
    \/ Ord2YmdCall
    \/ DateNewOther
    \/ DateLt
    \/ DateEq

Spec == Init /\ [][Next]_vars

(***************************************************************************)
(* The duration client: SpecTd.                                            *)
(***************************************************************************)
\* The arguments of the second duration of a comparison: those of the
\* examples of test.py, and another duration.
TdExamples ==
    {[days |-> 365, seconds |-> 0, microseconds |-> 0, milliseconds |-> 0,
      minutes |-> 0, hours |-> 0, weeks |-> 0],
     [days |-> 84, seconds |-> 600, microseconds |-> 0, milliseconds |-> 0,
      minutes |-> 50, hours |-> 23, weeks |-> 40],
     [days |-> 0, seconds |-> 1, microseconds |-> 0, milliseconds |-> 0,
      minutes |-> 0, hours |-> 0, weeks |-> 0]}

\* timedelta(days, seconds, microseconds, milliseconds, minutes, hours, weeks)
TdNew ==
    /\ op = "init"
    /\ \E days \in TdDaysIn, seconds \in TdSecondsIn,
          microseconds \in TdMicrosecondsIn, milliseconds \in TdMillisecondsIn,
          minutes \in TdMinutesIn, hours \in TdHoursIn, weeks \in TdWeeksIn :
        Construct("timedelta",
                  [fn |-> "timedelta", days |-> days, seconds |-> seconds,
                   microseconds |-> microseconds,
                   milliseconds |-> milliseconds, minutes |-> minutes,
                   hours |-> hours, weeks |-> weeks],
                  timedelta_new(days, seconds, microseconds, milliseconds,
                                minutes, hours, weeks))

\* other = timedelta(...), after self = timedelta(...)
TdNewOther ==
    /\ op = "timedelta"
    /\ self.cls = "timedelta"
    /\ \E a \in TdExamples :
        ConstructOther("timedelta,timedelta",
                       timedelta_new(a.days, a.seconds, a.microseconds,
                                     a.milliseconds, a.minutes, a.hours,
                                     a.weeks))

\* other = -self
TdNeg ==
    /\ op = "timedelta"
    /\ self.cls = "timedelta"
    /\ ConstructOther("-d", timedelta_neg(self))

\* other = -other, other being -self
TdNegNeg ==
    /\ op = "-d"
    /\ other.cls = "timedelta"
    /\ ConstructOther("-(-d)", timedelta_neg(other))

\* other == self, other being a second duration or -(-self)
TdEq ==
    /\ op \in {"timedelta,timedelta", "-(-d)"}
    /\ other.cls = "timedelta"
    /\ Return(IF op = "-(-d)" THEN "-(-d)==d" ELSE "t1==t2",
              BoolVal(timedelta_eq(other, self)))

\* self + other, other being -self
TdAddNeg ==
    /\ op = "-d"
    /\ other.cls = "timedelta"
    /\ Return("d+(-d)", timedelta_add(self, other))

\* self.total_seconds()
TdTotalSeconds ==
    /\ op = "timedelta"
    /\ self.cls = "timedelta"
    /\ Return("total_seconds", timedelta_total_seconds(self))

\* self - other, other being a second duration
TdSub ==
    /\ op = "timedelta,timedelta"
    /\ other.cls = "timedelta"
    /\ Return("t1-t2", timedelta_sub(self, other))

\* The integers a duration is scaled and divided by in test.py.
ScaleIn == {3, 10}

\* k * self, self * k and self // k, with other = k
TdScale ==
    /\ op = "timedelta"
    /\ self.cls = "timedelta"
    /\ \E k \in ScaleIn, f \in {"k*d", "d*k", "d//k"} :
        LET r == IF f = "d//k" THEN timedelta_floordiv(self, k)
                 ELSE timedelta_mul(self, k)
        IN  /\ op' = f
            /\ other' = IntVal(k)
            /\ ret' = IF IsExc(r) THEN None ELSE Allocate(r)
            /\ exc' = IF IsExc(r) THEN r.cls ELSE "none"
            /\ next_id' = IF IsExc(r) THEN next_id ELSE next_id + 1
            /\ UNCHANGED <<arg, self, calls, hash_secret>>

NextTd ==
    \/ TdNew
    \/ TdNewOther
    \/ TdNeg
    \/ TdNegNeg
    \/ TdEq
    \/ TdAddNeg
    \/ TdTotalSeconds
    \/ TdSub
    \/ TdScale

SpecTd == Init /\ [][NextTd]_vars

(***************************************************************************)
(* The time of day client: SpecTime.                                       *)
(***************************************************************************)
HourIn == Edges(0, 23)

MinuteIn == Edges(0, 59)

SecondIn == Edges(0, 59)

MicrosecondIn == Edges(0, 999999)

FoldIn == (0 - TimeSlack)..(1 + TimeSlack)

\* The tzinfo argument, which the constructors store unchecked.
TzIn == {None}

\* The date fields of a datetime: valid dates and one bad field at a time.
DtDatesIn ==
    {<<2000, 2, 29>>, <<9999, 12, 31>>, <<1, 1, 1>>, <<1900, 2, 29>>,
     <<0, 1, 1>>, <<10000, 1, 1>>, <<2002, 13, 1>>, <<2002, 4, 31>>}

\* time(hour, minute, second, microsecond, tzinfo, fold=fold)
TimeNew ==
    /\ op = "init"
    /\ \E hour \in HourIn, minute \in MinuteIn, second \in SecondIn,
          microsecond \in MicrosecondIn, tzinfo \in TzIn, fold \in FoldIn :
        Construct("time",
                  [fn |-> "time", hour |-> hour, minute |-> minute,
                   second |-> second, microsecond |-> microsecond,
                   tzinfo |-> tzinfo, fold |-> fold],
                  time_new(hour, minute, second, microsecond, tzinfo, fold))

\* datetime(year, month, day, hour, minute, second, microsecond, tzinfo, fold=fold)
DatetimeNew ==
    /\ op = "init"
    /\ \E t \in DtDatesIn, hour \in HourIn, minute \in MinuteIn,
          second \in SecondIn, microsecond \in MicrosecondIn, tzinfo \in TzIn,
          fold \in FoldIn :
        Construct("datetime",
                  [fn |-> "datetime", year |-> t[1], month |-> t[2],
                   day |-> t[3], hour |-> hour, minute |-> minute,
                   second |-> second, microsecond |-> microsecond,
                   tzinfo |-> tzinfo, fold |-> fold],
                  datetime_new(t[1], t[2], t[3], hour, minute, second,
                               microsecond, tzinfo, fold))

NextTime ==
    \/ TimeNew
    \/ DatetimeNew

SpecTime == Init /\ [][NextTime]_vars

(***************************************************************************)
(* The comparison client of class time: SpecTimeCmp.                       *)
(***************************************************************************)
\* The tzinfo of the operands: none, and two FixedOffset objects of one
\* offset and a third of another.
TzObjIn == {None, FixedOffset(60, -1), FixedOffset(60, -2), FixedOffset(-300, -3)}

\* The first, the middle and the last value of a field.
Points(lo, hi) == {lo, (lo + hi) \div 2, hi}

\* The second operand: times that differ from one another in one field.
OtherTimes ==
    {<<0, 0, 0, 0>>, <<11, 29, 29, 499999>>, <<23, 29, 29, 499999>>,
     <<11, 59, 29, 499999>>, <<11, 29, 59, 499999>>, <<11, 29, 29, 999999>>,
     <<23, 59, 59, 999999>>}

CmpOps == {"__eq__", "__ne__", "__lt__", "__le__", "__gt__", "__ge__"}

\* self = time(hour, minute, second, microsecond, tzinfo)
TimeNewValid ==
    /\ op = "init"
    /\ \E hour \in Points(0, 23), minute \in Points(0, 59),
          second \in Points(0, 59), microsecond \in Points(0, 999999),
          tzinfo \in TzObjIn :
        Construct("time",
                  [fn |-> "time", hour |-> hour, minute |-> minute,
                   second |-> second, microsecond |-> microsecond,
                   tzinfo |-> tzinfo, fold |-> 0],
                  time_new(hour, minute, second, microsecond, tzinfo, 0))

\* other = time(hour, minute, second, microsecond, tzinfo)
TimeNewOther ==
    /\ op = "time"
    /\ self.cls = "time"
    /\ \E t \in OtherTimes, tzinfo \in TzObjIn :
        ConstructOther("time,time",
                       time_new(t[1], t[2], t[3], t[4], tzinfo, 0))

\* self == other, self != other, self < other, self <= other, self > other,
\* self >= other
TimeCompare ==
    /\ op = "time,time"
    /\ other.cls = "time"
    /\ \E f \in CmpOps : Return(f, time_richcmp(f, self, other))

NextTimeCmp ==
    \/ TimeNewValid
    \/ TimeNewOther
    \/ TimeCompare

SpecTimeCmp == Init /\ [][NextTimeCmp]_vars

(***************************************************************************)
(* The client of class datetime, and of the hashes of class date: SpecDt.  *)
(***************************************************************************)
\* The dates of the first operand.
DtValidDates ==
    {<<1, 1, 1>>, <<1999, 12, 31>>, <<2000, 2, 28>>, <<2000, 2, 29>>,
     <<2002, 1, 31>>, <<9999, 12, 31>>}

\* The first operands of the examples of test_datetime.py.
DtExamples ==
    {<<2002, 3, 2, 17, 6, 0, 0>>, <<2000, 11, 29, 20, 58, 16, 999998>>}

\* The first operand: the extremes and the middle of each time field, on
\* each date, and the examples.
DtSelfIn ==
    {<<t[1], t[2], t[3], hour, minute, second, microsecond>> :
        t \in DtValidDates, hour \in Points(0, 23), minute \in Points(0, 59),
        second \in Points(0, 59),
        microsecond \in Points(0, 999999) \cup {999998}}
    \cup DtExamples

\* The second operand: the first and the last datetime, and datetimes that
\* differ from one another in one field.
OtherDatetimes ==
    {<<1, 1, 1, 0, 0, 0, 0>>, <<1956, 1, 31, 0, 0, 0, 0>>,
     <<2000, 2, 28, 11, 29, 29, 499999>>, <<2001, 2, 28, 11, 29, 29, 499999>>,
     <<2000, 3, 28, 11, 29, 29, 499999>>, <<2000, 2, 29, 11, 29, 29, 499999>>,
     <<2000, 2, 28, 23, 29, 29, 499999>>, <<2000, 2, 28, 11, 59, 29, 499999>>,
     <<2000, 2, 28, 11, 29, 59, 499999>>, <<2000, 2, 28, 11, 29, 29, 999999>>,
     <<9999, 12, 31, 23, 59, 59, 999999>>}

DtTzIn == {None, FixedOffset(60, -1), FixedOffset(60, -2)}

\* The durations added and subtracted, as (days, seconds, microseconds).
OtherTimedeltas ==
    {<<0, 0, 0>>, <<0, 0, 1>>, <<0, 0, -1>>, <<0, 0, 1000>>, <<0, 3600, 0>>,
     <<0, 36000, 0>>, <<1, 0, 0>>, <<-1, 0, 0>>, <<7, 0, 0>>}

\* self = datetime(year, month, day, hour, minute, second, microsecond, tzinfo)
DatetimeNewValid ==
    /\ op = "init"
    /\ \E t \in DtSelfIn, tzinfo \in DtTzIn :
        Construct("datetime",
                  [fn |-> "datetime", year |-> t[1], month |-> t[2],
                   day |-> t[3], hour |-> t[4], minute |-> t[5],
                   second |-> t[6], microsecond |-> t[7],
                   tzinfo |-> tzinfo, fold |-> 0],
                  datetime_new(t[1], t[2], t[3], t[4], t[5], t[6], t[7],
                               tzinfo, 0))

\* other = datetime(...)
DatetimeNewOther ==
    /\ op = "datetime"
    /\ self.cls = "datetime"
    /\ \E t \in OtherDatetimes, tzinfo \in DtTzIn :
        ConstructOther("datetime,datetime",
                       datetime_new(t[1], t[2], t[3], t[4], t[5], t[6], t[7],
                                    tzinfo, 0))

\* other = datetime(..., fold=1), a naive datetime
DatetimeNewOtherFold ==
    /\ op = "datetime"
    /\ self.cls = "datetime"
    /\ \E t \in OtherDatetimes :
        ConstructOther("datetime,datetime",
                       datetime_new(t[1], t[2], t[3], t[4], t[5], t[6], t[7],
                                    None, 1))

\* other = timedelta(days, seconds, microseconds)
DatetimeTimedeltaOther ==
    /\ op = "datetime"
    /\ self.cls = "datetime"
    /\ \E t \in OtherTimedeltas :
        ConstructOther("datetime,timedelta",
                       timedelta_new(t[1], t[2], t[3], 0, 0, 0, 0))

\* self == other, self != other, self < other, self <= other, self > other,
\* self >= other
DatetimeCompare ==
    /\ op = "datetime,datetime"
    /\ other.cls = "datetime"
    /\ \E f \in CmpOps : Return(f, datetime_richcmp(f, self, other))

\* ret = f(...), a new object.
ReturnNew(fn, r) ==
    /\ op' = fn
    /\ ret' = IF IsExc(r) THEN None ELSE Allocate(r)
    /\ exc' = IF IsExc(r) THEN r.cls ELSE "none"
    /\ next_id' = IF IsExc(r) THEN next_id ELSE next_id + 1
    /\ UNCHANGED <<arg, self, other, calls, hash_secret>>

\* self - other, other a datetime
DatetimeSub ==
    /\ op = "datetime,datetime"
    /\ other.cls = "datetime"
    /\ ReturnNew("a-b", datetime_sub(self, other))

\* self + other, other + self (datetime.__radd__ is __add__) and
\* self - other, other a timedelta
DatetimeAdd ==
    /\ op = "datetime,timedelta"
    /\ other.cls = "timedelta"
    /\ \/ ReturnNew("a+d", datetime_add(self, other))
       \/ ReturnNew("d+a", datetime_add(self, other))
       \/ ReturnNew("a-d", datetime_sub(self, other))

\* x == y for two timedelta values each the result of an expression.
timedelta_results_eq(x, y) ==
    IF IsExc(x) THEN x
    ELSE IF IsExc(y) THEN y
    ELSE BoolVal(timedelta_eq([x EXCEPT !.id = next_id],
                              [y EXCEPT !.id = next_id + 1]))

\* x - y for x and y each a datetime or the exception of its expression.
datetime_results_sub(x, y) ==
    IF IsExc(x) THEN x ELSE IF IsExc(y) THEN y ELSE datetime_sub(x, y)

\* (a + d) - a == d, a - (a + d) == -d, (a - d) - a == -d and
\* a - (a - d) == d, with a = self and d = other
DatetimeAddSub ==
    /\ op = "datetime,timedelta"
    /\ other.cls = "timedelta"
    /\ LET a == self
           d == other
       IN  \/ Return("(a+d)-a==d",
                     timedelta_results_eq(
                         datetime_results_sub(datetime_add(a, d), a), d))
           \/ Return("a-(a+d)==-d",
                     timedelta_results_eq(
                         datetime_results_sub(a, datetime_add(a, d)),
                         timedelta_neg(d)))
           \/ Return("(a-d)-a==-d",
                     timedelta_results_eq(
                         datetime_results_sub(datetime_sub(a, d), a),
                         timedelta_neg(d)))
           \/ Return("a-(a-d)==d",
                     timedelta_results_eq(
                         datetime_results_sub(a, datetime_sub(a, d)), d))

\* The objects and the value after hash(self) and hash(other), h1 and h2,
\* followed by a result r: each object keeps its hash in _hashcode.
Hashed(fn, h1, h2, r) ==
    /\ op' = fn
    /\ self' = IF IsExc(h1) THEN self
               ELSE [self EXCEPT !._hashcode = h1.pyval]
    /\ other' = IF IsExc(h1) \/ IsExc(h2) THEN other
                ELSE [other EXCEPT !._hashcode = h2.pyval]
    /\ ret' = IF IsExc(r) THEN None ELSE r
    /\ exc' = IF IsExc(r) THEN r.cls ELSE "none"
    /\ UNCHANGED <<arg, next_id, calls, hash_secret>>

\* The tuple (h1, h2), or the first exception.
hash_pair(h1, h2) ==
    IF IsExc(h1) THEN h1
    ELSE IF IsExc(h2) THEN h2
    ELSE TupleVal(<<h1.pyval, h2.pyval>>)

\* (hash(self), hash(other))
HashPair ==
    /\ op \in {"date,date", "datetime,datetime"}
    /\ other.cls = self.cls
    /\ Hashed("hash", hash(self), hash(other),
              hash_pair(hash(self), hash(other)))

\* The entry of key x looked up with key y, h1 and h2 being their hashes
\* and e the value of x == y: found when the hashes are equal and x is y or
\* x == y.
dict_lookup(x, y, h1, h2, e) ==
    IF IsExc(h1) THEN h1
    ELSE IF IsExc(h2) THEN h2
    ELSE IF h1.pyval # h2.pyval THEN Raise("KeyError")
    ELSE IF is_(x, y) THEN IntVal(1)
    ELSE IF IsExc(e) THEN e
    ELSE IF e.pyval THEN IntVal(1)
    ELSE Raise("KeyError")

\* {self: 1}[other]
DictLookup ==
    /\ op \in {"date,date", "datetime,datetime"}
    /\ other.cls = self.cls
    /\ Hashed("dict", hash(self), hash(other),
              dict_lookup(self, other, hash(self), hash(other),
                          eq(self, other)))

\* self == other for two dates or two datetimes
EqPair ==
    /\ op \in {"date,date", "datetime,datetime"}
    /\ other.cls = self.cls
    /\ Return("==", eq(self, other))

NextDt ==
    \/ DatetimeNewValid
    \/ DatetimeNewOther
    \/ DatetimeNewOtherFold
    \/ DatetimeTimedeltaOther
    \/ DatetimeCompare
    \/ DatetimeSub
    \/ DatetimeAdd
    \/ DatetimeAddSub
    \/ DateNew
    \/ DateNewOther
    \/ HashPair
    \/ DictLookup
    \/ EqPair

SpecDt == Init /\ [][NextDt]_vars

(***************************************************************************)
(* The client of the attributes, the time hash, the timestamps and the     *)
(* methods left for later: SpecOps.                                        *)
(***************************************************************************)
\* Timestamps: the first seconds, minutes, hours and days after the epoch,
\* and later instants.
TimestampIn ==
    {0, 1, 59, 60, 3599, 3600, 86399, 86400, 951782400, 1000000000,
     1015200000, 2147483647}
    \cup {86400 * d + 3661 * h : d \in 0..14, h \in 0..23}

\* The strings given to fromisoformat.
DateStringIn == {"", "2002-03-04", "2002-03-04T17:06:00", "today"}

\* ret = f(a), a function of the module or a method of a class.
Call(fn, a, r) ==
    /\ op' = fn
    /\ arg' = a
    /\ ret' = IF IsExc(r) THEN None ELSE r
    /\ exc' = IF IsExc(r) THEN r.cls ELSE "none"
    /\ UNCHANGED <<self, other, next_id, calls, hash_secret>>

\* self = datetime.fromtimestamp(timestamp)
DatetimeFromTimestamp ==
    /\ op = "init"
    /\ \E timestamp \in TimestampIn :
        Construct("datetime.fromtimestamp",
                  [fn |-> "datetime.fromtimestamp", timestamp |-> timestamp],
                  fromtimestamp("datetime", timestamp))

\* self = date.fromtimestamp(timestamp)
DateFromTimestamp ==
    /\ op = "init"
    /\ \E timestamp \in TimestampIn :
        Construct("date.fromtimestamp",
                  [fn |-> "date.fromtimestamp", timestamp |-> timestamp],
                  fromtimestamp("date", timestamp))

\* date.fromisoformat(date_string)
DateFromIsoformat ==
    /\ op = "init"
    /\ \E date_string \in DateStringIn :
        Call("date.fromisoformat",
             [fn |-> "date.fromisoformat", date_string |-> date_string],
             date_fromisoformat("date", date_string))

\* datetime.fromisoformat(date_string)
DatetimeFromIsoformat ==
    /\ op = "init"
    /\ \E date_string \in DateStringIn :
        Call("datetime.fromisoformat",
             [fn |-> "datetime.fromisoformat", date_string |-> date_string],
             datetime_fromisoformat("datetime", date_string))

\* self.replace(), self.replace(year=...), self.replace(month=...) and
\* self.replace(day=...), self a date
DateReplace ==
    /\ op = "date"
    /\ self.cls = "date"
    /\ \E year \in {None, IntVal(2002)}, month \in {None, IntVal(3)},
          day \in {None, IntVal(4)} :
        Return("date.replace", date_replace(self, year, month, day))

\* self.timetuple(), self a datetime
DatetimeTimetuple ==
    /\ op = "datetime"
    /\ self.cls = "datetime"
    /\ Return("datetime.timetuple", datetime_timetuple(self))

\* self.replace() and self.replace(fold=0), self a time
TimeReplace ==
    /\ op = "time"
    /\ self.cls = "time"
    /\ \E kwargs \in {{}, {"fold"}} :
        Return("time.replace", time_replace(<<self>>, kwargs))

\* self.dst(), self a time
TimeDst ==
    /\ op = "time"
    /\ self.cls = "time"
    /\ Return("time.dst", time_dst(<<self>>))

\* self.tzinfo, self a time
TimeTzinfo ==
    /\ op = "time"
    /\ self.cls = "time"
    /\ Return("time.tzinfo", time_tzinfo(self))

\* hash(self) with the fold cleared in the object itself, in the place of
\* self.replace(fold=0).
HashedSelf_unfold(fn, h) ==
    /\ op' = fn
    /\ self' = IF IsExc(h) THEN [self EXCEPT !._fold = 0]
               ELSE [self EXCEPT !._fold = 0, !._hashcode = h.pyval]
    /\ ret' = IF IsExc(h) THEN None ELSE h
    /\ exc' = IF IsExc(h) THEN h.cls ELSE "none"
    /\ UNCHANGED <<arg, other, next_id, calls, hash_secret>>

\* The object and the value after hash(self), h being the value of
\* __hash__: the object keeps it in _hashcode.
HashedSelf(fn, h) ==
    /\ op' = fn
    /\ self' = IF IsExc(h) THEN self ELSE [self EXCEPT !._hashcode = h.pyval]
    /\ ret' = IF IsExc(h) THEN None ELSE h
    /\ exc' = IF IsExc(h) THEN h.cls ELSE "none"
    /\ UNCHANGED <<arg, other, next_id, calls, hash_secret>>

\* hash(self), self a time
TimeHash ==
    /\ op = "time"
    /\ self.cls = "time"
    /\ HashedSelf("time.__hash__", time_hash(self))

NextOps ==
    \/ DateNew
    \/ TimeNew
    \/ TimeNewValid
    \/ DatetimeNew
    \/ DatetimeFromTimestamp
    \/ DateFromTimestamp
    \/ DateFromIsoformat
    \/ DatetimeFromIsoformat
    \/ DateReplace
    \/ DatetimeTimetuple
    \/ TimeReplace
    \/ TimeDst
    \/ TimeTzinfo
    \/ TimeHash

SpecOps == Init /\ [][NextOps]_vars

(***************************************************************************)
(* Callers that hash one object at the same time: SpecHash.  A step is one *)
(* read or write of the object by one caller of __hash__.                  *)
(***************************************************************************)
\* self = date(year, month, day), the object the callers share
DateNewShared ==
    /\ op = "init"
    /\ \E t \in OtherDates :
        Construct("date",
                  [fn |-> "date", year |-> t[1], month |-> t[2], day |-> t[3]],
                  date_new(t[1], t[2], t[3]))

\* self = datetime(...), the object the callers share
DatetimeNewShared ==
    /\ op = "init"
    /\ \E t \in OtherDatetimes, tzinfo \in DtTzIn, fold \in {0, 1} :
        Construct("datetime",
                  [fn |-> "datetime", year |-> t[1], month |-> t[2],
                   day |-> t[3], hour |-> t[4], minute |-> t[5],
                   second |-> t[6], microsecond |-> t[7],
                   tzinfo |-> tzinfo, fold |-> fold],
                  datetime_new(t[1], t[2], t[3], t[4], t[5], t[6], t[7],
                               tzinfo, fold))

\* The step of caller c that leaves it at position pc with the local value
\* local and the value returned or the exception raised result.
CallerStep(c, pc, local, result) ==
    calls' = [calls EXCEPT ![c] = [pc |-> pc, local |-> local,
                                   result |-> result]]

\* if self._hashcode == -1, with the cache marked as being computed: a
\* caller that reads -1 writes 0 before it computes.
hash_begin_marked(c) ==
    /\ self.cls \in {"date", "datetime"}
    /\ calls[c].pc \in {"idle", "done", "raised"}
    /\ CallerStep(c, IF self._hashcode = <<-1>> THEN "compute" ELSE "return",
                  None, None)
    /\ self' = IF self._hashcode = <<-1>> THEN [self EXCEPT !._hashcode = <<0>>]
               ELSE self
    /\ UNCHANGED <<op, arg, other, ret, exc, next_id, hash_secret>>

\* if self._hashcode == -1: caller c enters __hash__ and reads the cache.
hash_begin(c) ==
    /\ self.cls \in {"date", "datetime"}
    /\ calls[c].pc \in {"idle", "done", "raised"}
    /\ CallerStep(c, IF self._hashcode = <<-1>> THEN "compute" ELSE "return",
                  None, None)
    /\ UNCHANGED <<op, arg, self, other, ret, exc, next_id, hash_secret>>

\* The value __hash__ computes when the cache is unset.
hash_value(d) ==
    IF d.cls = "datetime" THEN datetime_hash_offset(d, utcoffset(d))
    ELSE date_hash_state(date_getstate(d))

\* Caller c holds the value h, or has raised the exception h.
hash_computed(c, h) ==
    IF IsExc(h) THEN CallerStep(c, "raised", None, h)
    ELSE CallerStep(c, "store", h, None)

\* hash(self._getstate()), and for a datetime self.utcoffset() and
\* hash(t._getstate()[0]): caller c reads the fields.
hash_compute(c) ==
    /\ calls[c].pc = "compute"
    /\ hash_computed(c, hash_value(self))
    /\ UNCHANGED <<op, arg, self, other, ret, exc, next_id, hash_secret>>

\* self._hashcode = ...: caller c writes the cache.
hash_store(c) ==
    /\ calls[c].pc = "store"
    /\ self' = [self EXCEPT !._hashcode = calls[c].local.pyval]
    /\ CallerStep(c, "return", None, None)
    /\ UNCHANGED <<op, arg, other, ret, exc, next_id, hash_secret>>

\* return self._hashcode: caller c reads the cache again.
hash_return(c) ==
    /\ calls[c].pc = "return"
    /\ CallerStep(c, "done", None, IntVal(self._hashcode))
    /\ UNCHANGED <<op, arg, self, other, ret, exc, next_id, hash_secret>>

HashBegin == \E c \in Callers : hash_begin(c)

HashCompute == \E c \in Callers : hash_compute(c)

HashStore == \E c \in Callers : hash_store(c)

HashReturn == \E c \in Callers : hash_return(c)

NextHash ==
    \/ DateNewShared
    \/ DatetimeNewShared
    \/ HashBegin
    \/ HashCompute
    \/ HashStore
    \/ HashReturn

SpecHash == Init /\ [][NextHash]_vars

(***************************************************************************)
(* Sequences of operations on the same values: SpecValues.  The client     *)
(* evaluates one expression after another on the objects it holds.         *)
(***************************************************************************)
\* self = time(hour, minute, second, microsecond, tzinfo, fold=fold)
TimeNewShared ==
    /\ op = "init"
    /\ \E t \in OtherTimes, tzinfo \in TzObjIn, fold \in {0, 1} :
        Construct("time",
                  [fn |-> "time", hour |-> t[1], minute |-> t[2],
                   second |-> t[3], microsecond |-> t[4],
                   tzinfo |-> tzinfo, fold |-> fold],
                  time_new(t[1], t[2], t[3], t[4], tzinfo, fold))

\* self = timedelta(...), the durations of the examples
TdNewShared ==
    /\ op = "init"
    /\ \E a \in TdExamples :
        Construct("timedelta",
                  [fn |-> "timedelta", days |-> a.days, seconds |-> a.seconds,
                   microseconds |-> a.microseconds,
                   milliseconds |-> a.milliseconds, minutes |-> a.minutes,
                   hours |-> a.hours, weeks |-> a.weeks],
                  timedelta_new(a.days, a.seconds, a.microseconds,
                                a.milliseconds, a.minutes, a.hours, a.weeks))

\* The attributes read.
AttrNames ==
    {"year", "month", "day", "hour", "minute", "second", "microsecond",
     "tzinfo", "fold", "days", "seconds", "microseconds"}

ValueClasses == {"date", "time", "datetime", "timedelta"}

\* self.name
GetAttr ==
    /\ op \in ValueClasses
    /\ self.cls = op
    /\ \E name \in AttrNames : Return(name, getattr(self, name))

\* self.isoformat()
Isoformat ==
    /\ op \in {"date", "time", "datetime"}
    /\ self.cls = op
    /\ Return("isoformat", isoformat(self))

\* self.toordinal(), self.weekday() and self.isoweekday(), self a datetime
DatetimeOrdinalOps ==
    /\ op = "datetime"
    /\ self.cls = "datetime"
    /\ \/ Return("toordinal", IntVal(datetime_toordinal(self)))
       \/ Return("weekday", IntVal(date_weekday(self)))
       \/ Return("isoweekday", IntVal(date_isoweekday(self)))

\* The operands the client holds: the classes of self and other.
Operands ==
    CASE other.cls = "NoneType" -> self.cls
      [] self.cls = "date" /\ other.cls = "date" -> "date,date"
      [] self.cls = "time" /\ other.cls = "time" -> "time,time"
      [] self.cls = "datetime" /\ other.cls = "datetime" -> "datetime,datetime"
      [] self.cls = "datetime" /\ other.cls = "timedelta" -> "datetime,timedelta"
      [] self.cls = "timedelta" /\ other.cls = "timedelta"
           -> "timedelta,timedelta"

\* The client goes on to its next expression, on the objects it holds: the
\* value of the last one is dropped, and its identity is free again.
NextExpression ==
    /\ op \notin {"init", Operands}
    /\ self.cls \in ValueClasses
    /\ other.cls \in ValueClasses \cup {"NoneType"}
    /\ op' = Operands
    /\ ret' = None
    /\ exc' = "none"
    /\ next_id' = IF other.cls = "NoneType" \/ other.id < self.id
                  THEN self.id + 1 ELSE other.id + 1
    /\ UNCHANGED <<arg, self, other, calls, hash_secret>>

NextValues ==
    \/ DateNewShared
    \/ DatetimeNewShared
    \/ TimeNewShared
    \/ TdNewShared
    \/ DateNewOther
    \/ DatetimeNewOther
    \/ DatetimeNewOtherFold
    \/ DatetimeTimedeltaOther
    \/ TimeNewOther
    \/ TdNewOther
    \/ TdNeg
    \/ GetAttr
    \/ Isoformat
    \/ DateToOrdinal
    \/ DateWeekday
    \/ DateIsoWeekday
    \/ DatetimeOrdinalOps
    \/ DateLt
    \/ DateEq
    \/ TimeCompare
    \/ TimeHash
    \/ DatetimeCompare
    \/ DatetimeSub
    \/ DatetimeAdd
    \/ HashPair
    \/ DictLookup
    \/ EqPair
    \/ TdEq
    \/ TdTotalSeconds
    \/ NextExpression

SpecValues == Init /\ [][NextValues]_vars

(***************************************************************************)
(* The claims.                                                             *)
(***************************************************************************)
\* The leap year rule and the month lengths as the claims state them.
ClaimLeap(y) == y % 4 = 0 /\ (y % 100 # 0 \/ y % 400 = 0)

ClaimDaysInMonth(y, m) ==
    IF m = 2 THEN (IF ClaimLeap(y) THEN 29 ELSE 28)
    ELSE IF m \in {4, 6, 9, 11} THEN 30 ELSE 31

ClaimValidDate(y, m, d) ==
    /\ 1 <= y /\ y <= 9999
    /\ 1 <= m /\ m <= 12
    /\ 1 <= d /\ d <= ClaimDaysInMonth(y, m)

\* C1: for every valid date (y, m, d), _ord2ymd(_ymd2ord(y, m, d)) returns
\* exactly (y, m, d).
C1_RoundTrip ==
    op = "_ord2ymd" =>
        /\ exc = "none"
        /\ ret = TupleVal(<<arg.year, arg.month, arg.day>>)

\* The round trip of the last day of a 400-year cycle and of a leap day.
C1_Witness ==
    /\ op = "_ord2ymd"
    /\ arg.year = 400 /\ arg.month = 12 /\ arg.day = 31
    /\ ret = TupleVal(<<400, 12, 31>>)

\* C2: fromordinal(n), on date and on datetime, succeeds if and only if
\* 1 <= n <= 3652059; it then returns the date whose toordinal() is n, with
\* 1 giving 0001-01-01 and 3652059 giving 9999-12-31; outside the range it
\* raises ValueError and returns no value.
C2_FromOrdinal ==
    /\ op \in {"date.fromordinal", "datetime.fromordinal"} =>
          /\ exc = "none" <=> (1 <= arg.ordinal /\ arg.ordinal <= 3652059)
          /\ exc # "none" => exc = "ValueError" /\ self = None
          /\ exc = "none" =>
                self.cls = (IF op = "date.fromordinal" THEN "date" ELSE "datetime")
          /\ arg.ordinal = 1 =>
                self._year = 1 /\ self._month = 1 /\ self._day = 1
          /\ arg.ordinal = 3652059 =>
                self._year = 9999 /\ self._month = 12 /\ self._day = 31
    /\ (op = "toordinal"
          /\ arg.fn \in {"date.fromordinal", "datetime.fromordinal"}) =>
          ret = IntVal(arg.ordinal)

\* datetime.fromordinal(3652059).toordinal() has returned 3652059.
C2_Witness ==
    /\ op = "toordinal"
    /\ arg.fn = "datetime.fromordinal"
    /\ arg.ordinal = 3652059
    /\ self._year = 9999
    /\ ret = IntVal(3652059)

\* C3: ordinals are strictly increasing with date: d1 < d2 under the date
\* comparison if and only if d1.toordinal() < d2.toordinal(), and d1 == d2 if
\* and only if the ordinals are equal.
C3_OrdinalMonotone ==
    /\ op = "date.__lt__" =>
          (ret.pyval <=> date_toordinal(self) < date_toordinal(other))
    /\ op = "date.__eq__" =>
          (ret.pyval <=> date_toordinal(self) = date_toordinal(other))

\* 2000-02-29 < 2000-03-01 has returned True.
C3_Witness ==
    /\ op = "date.__lt__"
    /\ self._year = 2000 /\ self._month = 2 /\ self._day = 29
    /\ other._year = 2000 /\ other._month = 3 /\ other._day = 1
    /\ ret = BoolVal(TRUE)

\* C4: date(year, month, day) succeeds if and only if 1 <= year <= 9999,
\* 1 <= month <= 12 and 1 <= day <= days_in_month(year, month), February
\* having 29 days exactly in leap years; otherwise it raises ValueError and
\* no date is produced.
C4_DateConstructor ==
    op = "date" =>
        /\ exc = "none" <=> ClaimValidDate(arg.year, arg.month, arg.day)
        /\ exc = "none" =>
              /\ self.cls = "date"
              /\ self._year = arg.year
              /\ self._month = arg.month
              /\ self._day = arg.day
        /\ exc # "none" => exc = "ValueError" /\ self = None
        /\ <<arg.year, arg.month, arg.day>>
              \in {<<2000, 2, 29>>, <<2004, 2, 29>>, <<2400, 2, 29>>} =>
              exc = "none"
        /\ <<arg.year, arg.month, arg.day>>
              \in {<<1900, 2, 29>>, <<2001, 2, 29>>, <<2100, 2, 29>>,
                   <<2000, 2, 30>>} =>
              exc = "ValueError"

\* date(1900, 2, 29) has raised ValueError.
C4_Witness ==
    /\ op = "date"
    /\ arg.year = 1900 /\ arg.month = 2 /\ arg.day = 29
    /\ exc = "ValueError"
    /\ self = None

ClaimValidTime(h, m, sec, us, f) ==
    /\ 0 <= h /\ h <= 23
    /\ 0 <= m /\ m <= 59
    /\ 0 <= sec /\ sec <= 59
    /\ 0 <= us /\ us <= 999999
    /\ f \in {0, 1}

\* C5: the time and datetime constructors succeed only when hour is in
\* 0..23, minute and second in 0..59, microsecond in 0..999999 and fold in
\* {0, 1} (and the date fields of a datetime are valid); with any field out
\* of range they raise ValueError and produce no value, so every constructed
\* value has all its fields in range.
C5_TimeConstructors ==
    op \in {"time", "datetime"} =>
        /\ exc = "none" <=>
              /\ ClaimValidTime(arg.hour, arg.minute, arg.second,
                                arg.microsecond, arg.fold)
              /\ op = "datetime" =>
                    ClaimValidDate(arg.year, arg.month, arg.day)
        /\ exc # "none" => exc = "ValueError" /\ self = None
        /\ exc = "none" =>
              /\ self.cls = op
              /\ self._hour = arg.hour /\ self._hour \in 0..23
              /\ self._minute = arg.minute /\ self._minute \in 0..59
              /\ self._second = arg.second /\ self._second \in 0..59
              /\ self._microsecond = arg.microsecond
              /\ self._microsecond \in 0..999999
              /\ self._fold = arg.fold /\ self._fold \in {0, 1}
              /\ op = "datetime" =>
                    /\ self._year = arg.year
                    /\ self._month = arg.month
                    /\ self._day = arg.day
                    /\ ClaimValidDate(self._year, self._month, self._day)

\* datetime(2000, 2, 29, 23, 59, 59, 1000000) has raised ValueError.
C5_Witness ==
    /\ op = "datetime"
    /\ arg.year = 2000 /\ arg.month = 2 /\ arg.day = 29
    /\ arg.hour = 23 /\ arg.minute = 59 /\ arg.second = 59
    /\ arg.microsecond = 1000000 /\ arg.fold = 1
    /\ exc = "ValueError"
    /\ self = None

\* The day count of the arguments of timedelta(...) after normalization:
\* the floor of their total over one day.
ClaimNormDays(a) ==
    a.days + 7 * a.weeks
    + ((a.seconds + 60 * a.minutes + 3600 * a.hours
        + ((a.microseconds + 1000 * a.milliseconds) \div 1000000)) \div 86400)

\* days*86400*10^6 + seconds*10^6 + microseconds of the object d equals the
\* total of the arguments a in microseconds.  With A, B and C the differences
\* of the days, the seconds and the microseconds, A*86400*10^6 + B*10^6 + C
\* is 0 exactly when 10^6 divides C, 86400 divides B + C/10^6 and A plus that
\* quotient is 0: no product leaves the 32-bit integers.
ClaimSameTotal(d, a) ==
    LET A == d._days - (a.days + 7 * a.weeks)
        B == d._seconds - (a.seconds + 60 * a.minutes + 3600 * a.hours)
        C == d._microseconds - (a.microseconds + 1000 * a.milliseconds)
        BC == B + (C \div 1000000)
    IN  /\ C % 1000000 = 0
        /\ BC % 86400 = 0
        /\ A + (BC \div 86400) = 0

\* C6: for integer arguments whose normalized day count is within bounds,
\* the timedelta constructed has 0 <= seconds < 86400 and
\* 0 <= microseconds < 1000000, its total equals the total of the arguments
\* in microseconds, and a negative total has a negative days field with
\* non-negative seconds and microseconds.
C6_TimedeltaNormalized ==
    (op = "timedelta" /\ abs(ClaimNormDays(arg)) <= 999999999) =>
        /\ exc = "none"
        /\ self.cls = "timedelta"
        /\ 0 <= self._seconds /\ self._seconds < 86400
        /\ 0 <= self._microseconds /\ self._microseconds < 1000000
        /\ ClaimSameTotal(self, arg)
        /\ ClaimNormDays(arg) < 0 => self._days < 0

\* timedelta(seconds=-1, microseconds=-1) is (-1, 86398, 999999).
C6_Witness ==
    /\ op = "timedelta"
    /\ arg = [fn |-> "timedelta", days |-> 0, seconds |-> -1,
              microseconds |-> -1, milliseconds |-> 0, minutes |-> 0,
              hours |-> 0, weeks |-> 0]
    /\ self._days = -1
    /\ self._seconds = 86398
    /\ self._microseconds = 999999

\* The two durations hold the same total: normalized triples are unique.
SameDuration(x, y) ==
    /\ x._days = y._days
    /\ x._seconds = y._seconds
    /\ x._microseconds = y._microseconds

\* C7: two timedelta values constructed from different arguments of the
\* same total compare equal with ==.
C7_NormalizationEquivalence ==
    (op = "t1==t2" /\ SameDuration(self, other)) => ret = BoolVal(TRUE)

\* C8: timedelta(...) raises OverflowError if and only if the day count after
\* normalization has |days| > 999999999, and then produces no value; every
\* value constructed has -999999999 <= days <= 999999999.
C8_TimedeltaOverflow ==
    op = "timedelta" =>
        /\ exc = "OverflowError" <=> abs(ClaimNormDays(arg)) > 999999999
        /\ exc # "none" => exc = "OverflowError" /\ self = None
        /\ exc = "none" =>
              -999999999 <= self._days /\ self._days <= 999999999

\* timedelta(days=-999999999, seconds=-1) has raised OverflowError.
C8_Witness ==
    /\ op = "timedelta"
    /\ arg = [fn |-> "timedelta", days |-> -999999999, seconds |-> -1,
              microseconds |-> 0, milliseconds |-> 0, minutes |-> 0,
              hours |-> 0, weeks |-> 0]
    /\ exc = "OverflowError"
    /\ self = None

Normalized(d) ==
    /\ d.cls = "timedelta"
    /\ abs(d._days) <= 999999999
    /\ 0 <= d._seconds /\ d._seconds < 86400
    /\ 0 <= d._microseconds /\ d._microseconds < 1000000

\* C9: negation is involutive: for every normalized timedelta d, -d is a
\* normalized timedelta and -(-d) == d.
C9_NegationInvolutive ==
    /\ op = "-d" => exc = "none" /\ Normalized(other)
    /\ op = "-(-d)" => exc = "none" /\ Normalized(other)
    /\ op = "-(-d)==d" => ret = BoolVal(TRUE)

\* C10: for every normalized timedelta d, d + (-d) is the zero duration.
C10_AddNegationIsZero ==
    op = "d+(-d)" =>
        /\ exc = "none"
        /\ ret.cls = "timedelta"
        /\ ret._days = 0 /\ ret._seconds = 0 /\ ret._microseconds = 0

\* C11: total_seconds() returns ((days*86400 + seconds)*10^6 + microseconds)
\* / 10^6, e.g. 31536000.0 for timedelta(days=365).
C11_TotalSeconds ==
    op = "total_seconds" =>
        /\ exc = "none"
        /\ ret = FloatVal(self._days * 86400 + self._seconds,
                          self._microseconds)

\* The triple of x minus k times the triple of y, carried: <<days, seconds,
\* microseconds>> with 0 <= seconds < 86400 and 0 <= microseconds < 1000000.
ClaimDiff(x, k, y) ==
    LET A  == x._days - k * y._days
        B  == x._seconds - k * y._seconds
        C  == x._microseconds - k * y._microseconds
        BC == B + (C \div 1000000)
    IN  <<A + (BC \div 86400), BC % 86400, C % 1000000>>

\* C12: subtraction, scaling by an integer and floor division by an integer
\* return the normalized timedelta of the exact integer-microsecond result:
\* t1 - t2 plus t2 is t1, k * d and d * k have k times the total of d, and
\* d // k is the largest duration q with k * q <= d.
C12_TimedeltaArithmetic ==
    /\ op = "t1-t2" =>
          /\ exc = "none"
          /\ Normalized(ret)
          /\ ClaimDiff(self, 1, other) = <<ret._days, ret._seconds, ret._microseconds>>
    /\ op \in {"k*d", "d*k"} =>
          /\ exc = "none"
          /\ Normalized(ret)
          /\ ClaimDiff(ret, other.pyval, self) = <<0, 0, 0>>
    /\ op = "d//k" =>
          /\ exc = "none"
          /\ Normalized(ret)
          /\ LET e == ClaimDiff(self, other.pyval, ret)
             IN  e[1] = 0 /\ e[2] = 0 /\ e[3] < other.pyval

\* x < y in the lexicographic order of two tuples of one length.
ClaimLexLess(x, y) ==
    \E i \in 1..Len(x) : x[i] < y[i] /\ \A j \in 1..(i - 1) : x[j] = y[j]

\* y is x with one field increased.
ClaimOneFieldMore(x, y) ==
    \E i \in 1..Len(x) : x[i] < y[i] /\ \A j \in 1..Len(x) : j # i => x[j] = y[j]

\* What the comparison f answers on tuples x and y compared lexicographically.
ClaimCompare(f, x, y) ==
    CASE f = "__lt__" -> ClaimLexLess(x, y)
      [] f = "__gt__" -> ClaimLexLess(y, x)
      [] f = "__eq__" -> x = y
      [] f = "__ne__" -> x # y
      [] f = "__le__" -> ClaimLexLess(x, y) \/ x = y
      [] f = "__ge__" -> ClaimLexLess(y, x) \/ x = y

ClaimTimeFields(t) == <<t._hour, t._minute, t._second, t._microsecond>>

\* C18: two times of the same tzinfo object, or both naive, compare
\* tuple-wise on (hour, minute, second, microsecond): exactly one of
\* t1 < t2, t1 == t2, t1 > t2 holds, and a time with one field increased is
\* strictly larger.
C18_TimeComparison ==
    (op \in CmpOps /\ self.cls = "time" /\ self._tzinfo = other._tzinfo) =>
        /\ exc = "none"
        /\ ret = BoolVal(ClaimCompare(op, ClaimTimeFields(self),
                                      ClaimTimeFields(other)))
        /\ Cardinality({f \in {"__lt__", "__eq__", "__gt__"} :
                          time_richcmp(f, self, other) = BoolVal(TRUE)}) = 1
        /\ ClaimOneFieldMore(ClaimTimeFields(self), ClaimTimeFields(other)) =>
              /\ time_richcmp("__lt__", self, other) = BoolVal(TRUE)
              /\ time_richcmp("__gt__", other, self) = BoolVal(TRUE)

\* time(11, 29, 29, 499999, tz) < time(11, 29, 29, 999999, tz) is True, tz
\* one FixedOffset object.
C18_Witness ==
    /\ op = "__lt__"
    /\ self.cls = "time"
    /\ self._tzinfo = FixedOffset(60, -1)
    /\ other._tzinfo = FixedOffset(60, -1)
    /\ ClaimTimeFields(self) = <<11, 29, 29, 499999>>
    /\ ClaimTimeFields(other) = <<11, 29, 29, 999999>>
    /\ ret = BoolVal(TRUE)

\* C19: comparing an aware time with a naive time, == returns False and !=
\* returns True without raising, and <, <=, >, >= raise TypeError.
C19_AwareNaiveTime ==
    (/\ op \in CmpOps
     /\ self.cls = "time"
     /\ (self._tzinfo = None) # (other._tzinfo = None)) =>
        /\ op = "__eq__" => exc = "none" /\ ret = BoolVal(FALSE)
        /\ op = "__ne__" => exc = "none" /\ ret = BoolVal(TRUE)
        /\ op \notin {"__eq__", "__ne__"} => exc = "TypeError" /\ ret = None

\* The seconds of the time of day of a datetime.
ClaimDaySeconds(a) == a._hour * 3600 + a._minute * 60 + a._second

\* The arguments of a timedelta of a.toordinal() days and a's time of day,
\* plus (sign = 1) or minus (sign = -1) the timedelta d.
ClaimSumArgs(a, sign, d) ==
    [days |-> datetime_toordinal(a) + sign * d._days,
     seconds |-> ClaimDaySeconds(a) + sign * d._seconds,
     microseconds |-> a._microsecond + sign * d._microseconds,
     milliseconds |-> 0, minutes |-> 0, hours |-> 0, weeks |-> 0]

\* The triple (ordinal, seconds of the day, microsecond) of a datetime.
ClaimTriple(a) ==
    [_days |-> datetime_toordinal(a), _seconds |-> ClaimDaySeconds(a),
     _microseconds |-> a._microsecond]

\* r is the datetime of the normalized triple of the arguments args, with
\* the tzinfo of a.
ClaimIsSum(r, a, args) ==
    /\ r.cls = "datetime"
    /\ datetime_toordinal(r) = ClaimNormDays(args)
    /\ ClaimSameTotal(ClaimTriple(r), args)
    /\ r._tzinfo = a._tzinfo

\* C13: for a datetime a and a timedelta d whose sum has an ordinal in
\* 1..3652059, a + d and d + a return the datetime of the normalized triple
\* of a.toordinal() days + a's time of day + d, with a's tzinfo.
C13_DatetimeAdd ==
    (/\ op \in {"a+d", "d+a"}
     /\ ClaimNormDays(ClaimSumArgs(self, 1, other)) \in 1.._MAXORDINAL) =>
        /\ exc = "none"
        /\ ClaimIsSum(ret, self, ClaimSumArgs(self, 1, other))

\* C14: datetime + timedelta raises OverflowError exactly when the ordinal
\* of the sum is outside 1..3652059, and otherwise returns the sum, a
\* microsecond carrying into the next second, minute, hour and day.
C14_DatetimeAddOverflow ==
    op \in {"a+d", "d+a"} =>
        IF ClaimNormDays(ClaimSumArgs(self, 1, other)) \in 1.._MAXORDINAL
        THEN /\ exc = "none"
             /\ ClaimIsSum(ret, self, ClaimSumArgs(self, 1, other))
        ELSE exc = "OverflowError" /\ ret = None

\* C15: for a naive datetime a and a timedelta d with a + d in range,
\* (a + d) - a == d and a - (a + d) == -d; with a - d in range,
\* (a - d) - a == -d and a - (a - d) == d.
C15_AddSubInverse ==
    /\ (/\ op \in {"(a+d)-a==d", "a-(a+d)==-d"}
        /\ self._tzinfo = None
        /\ ClaimNormDays(ClaimSumArgs(self, 1, other)) \in 1.._MAXORDINAL) =>
           exc = "none" /\ ret = BoolVal(TRUE)
    /\ (/\ op \in {"(a-d)-a==-d", "a-(a-d)==d"}
        /\ self._tzinfo = None
        /\ ClaimNormDays(ClaimSumArgs(self, -1, other)) \in 1.._MAXORDINAL) =>
           exc = "none" /\ ret = BoolVal(TRUE)

\* C16: for two datetimes a and b of one tzinfo object, or both naive,
\* a - b is the normalized timedelta of (a.toordinal() - b.toordinal()) days
\* plus the difference of the times of day, with 0 <= seconds < 86400 and
\* 0 <= microseconds < 1000000 also when a is earlier than b.
C16_DatetimeSub ==
    (op = "a-b" /\ self._tzinfo = other._tzinfo) =>
        /\ exc = "none"
        /\ Normalized(ret)
        /\ ClaimSameTotal(ret, ClaimSumArgs(self, -1, ClaimTriple(other)))

\* datetime(2002, 1, 31) - datetime(1956, 1, 31) is 46*365 + 12 days.
C16_Witness ==
    /\ op = "a-b"
    /\ datetime_fields(self) = <<2002, 1, 31, 0, 0, 0, 0>>
    /\ datetime_fields(other) = <<1956, 1, 31, 0, 0, 0, 0>>
    /\ self._tzinfo = None /\ other._tzinfo = None
    /\ ret.cls = "timedelta"
    /\ ret._days = 46 * 365 + 12 /\ ret._seconds = 0 /\ ret._microseconds = 0

\* C17: two naive datetimes compare lexicographically on (year, month,
\* day, hour, minute, second, microsecond): exactly one of a < b, a == b,
\* a > b holds, a <= b is (a < b or a == b), a >= b is (a > b or a == b),
\* and a datetime with one field increased is strictly larger.
C17_DatetimeComparison ==
    (/\ op \in CmpOps
     /\ self.cls = "datetime"
     /\ self._tzinfo = None /\ other._tzinfo = None) =>
        /\ exc = "none"
        /\ ret = BoolVal(ClaimCompare(op, datetime_fields(self),
                                      datetime_fields(other)))
        /\ Cardinality({f \in {"__lt__", "__eq__", "__gt__"} :
                          datetime_richcmp(f, self, other) = BoolVal(TRUE)}) = 1
        /\ datetime_richcmp("__le__", self, other).pyval
              = (datetime_richcmp("__lt__", self, other).pyval
                 \/ datetime_richcmp("__eq__", self, other).pyval)
        /\ datetime_richcmp("__ge__", self, other).pyval
              = (datetime_richcmp("__gt__", self, other).pyval
                 \/ datetime_richcmp("__eq__", self, other).pyval)
        /\ ClaimOneFieldMore(datetime_fields(self), datetime_fields(other)) =>
              /\ datetime_richcmp("__lt__", self, other) = BoolVal(TRUE)
              /\ datetime_richcmp("__gt__", other, self) = BoolVal(TRUE)

\* datetime(2000, 2, 28, 11, 29, 29, 499999) <
\* datetime(2000, 2, 28, 11, 29, 29, 999999) is True.
C17_Witness ==
    /\ op = "__lt__"
    /\ self.cls = "datetime"
    /\ self._tzinfo = None /\ other._tzinfo = None
    /\ datetime_fields(self) = <<2000, 2, 28, 11, 29, 29, 499999>>
    /\ datetime_fields(other) = <<2000, 2, 28, 11, 29, 29, 999999>>
    /\ ret = BoolVal(TRUE)

\* The fields a date or a datetime was constructed with.
ClaimFields(x) ==
    IF x.cls = "datetime" THEN datetime_fields(x)
    ELSE <<x._year, x._month, x._day>>

\* C20: two dates constructed with equal (year, month, day), and two naive
\* datetimes constructed with equal fields, compare == and have equal
\* hashes, and either looks up the entry stored under the other in a dict.
C20_EqualFieldsEqualHash ==
    (/\ op \in {"==", "hash", "dict"}
     /\ ClaimFields(self) = ClaimFields(other)
     /\ self.cls = "datetime" => self._tzinfo = None /\ other._tzinfo = None) =>
        /\ exc = "none"
        /\ op = "==" => ret = BoolVal(TRUE)
        /\ op = "hash" => ret.pyval[1] = ret.pyval[2]
        /\ op = "dict" => ret = IntVal(1)

\* {datetime(2000, 2, 28, 11, 29, 29, 499999): 1} looked up with a second
\* datetime(2000, 2, 28, 11, 29, 29, 499999) has given 1.
C20_Witness ==
    /\ op = "dict"
    /\ self.cls = "datetime"
    /\ self.id # other.id
    /\ self._tzinfo = None /\ other._tzinfo = None
    /\ datetime_fields(self) = <<2000, 2, 28, 11, 29, 29, 499999>>
    /\ datetime_fields(other) = <<2000, 2, 28, 11, 29, 29, 499999>>
    /\ self._hashcode # <<-1>> /\ self._hashcode = other._hashcode
    /\ ret = IntVal(1)


\* The calendar day after (year, month, day), for a date before 9999-12-31.
ClaimNextDay(y, m, d) ==
    IF d < ClaimDaysInMonth(y, m) THEN <<y, m, d + 1>>
    ELSE IF m < 12 THEN <<y, m + 1, 1>>
    ELSE <<y + 1, 1, 1>>

\* The date object of the tuple t.
ClaimDate(t) == date_new(t[1], t[2], t[3])

\* C23: for every valid date, weekday() is (toordinal() + 6) mod 7, in 0..6,
\* isoweekday() is weekday() + 1, in 1..7, and the next calendar day has the
\* weekday (weekday + 1) mod 7.
C23_Weekday ==
    /\ op = "weekday" =>
        /\ exc = "none"
        /\ ret = IntVal((date_toordinal(self) + 6) % 7)
        /\ ret.pyval \in 0..6
        /\ <<self._year, self._month, self._day>> # <<9999, 12, 31>> =>
              date_weekday(ClaimDate(ClaimNextDay(self._year, self._month,
                                                  self._day)))
                 = (ret.pyval + 1) % 7
    /\ op = "isoweekday" =>
        /\ exc = "none"
        /\ ret = IntVal(date_weekday(self) + 1)
        /\ ret.pyval \in 1..7

\* date(2002, 3, 4).weekday() is 0 and date(2002, 3, 4).isoweekday() is 1.
C23_Witness ==
    /\ op = "weekday"
    /\ <<self._year, self._month, self._day>> = <<2002, 3, 4>>
    /\ ret = IntVal(0)
    /\ date_isoweekday(self) = 1


\* C29: ordinals are gap-free.  For every valid date but 9999-12-31 the
\* next calendar day has the ordinal _ymd2ord(date) + 1; a year has 366 days
\* before the next when it is a leap year and 365 otherwise; and the days
\* before month + 1 are those before month plus the days in month.
C29_OrdinalsGapFree ==
    op = "_ymd2ord" =>
        /\ exc = "none"
        /\ ret = _ymd2ord(arg.year, arg.month, arg.day)
        /\ <<arg.year, arg.month, arg.day>> # <<9999, 12, 31>> =>
              LET t == ClaimNextDay(arg.year, arg.month, arg.day)
              IN  _ymd2ord(t[1], t[2], t[3]) = IntVal(ret.pyval + 1)
        /\ _days_before_year(arg.year + 1) - _days_before_year(arg.year)
              = IF ClaimLeap(arg.year) THEN 366 ELSE 365
        /\ arg.month < 12 =>
              _days_before_month(arg.year, arg.month + 1)
                 - _days_before_month(arg.year, arg.month)
              = _days_in_month(arg.year, arg.month)

\* _ymd2ord(2000, 12, 31) is 730485, and the ordinal of 2001-01-01 is 730486.
C29_Witness ==
    /\ op = "_ymd2ord"
    /\ <<arg.year, arg.month, arg.day>> = <<2000, 12, 31>>
    /\ ret = IntVal(730485)
    /\ _ymd2ord(2001, 1, 1) = IntVal(730486)


\* C27: for every ordinal n in 1..3652059 no assertion of _ord2ymd fails.
\* When the 100-year or the single-year quotient is 4 the remainder is 0 and
\* the result is December 31 of the year before the year computed; otherwise
\* the leap flag equals _is_leap(year), the month estimate (n + 50) >> 5 is
\* the month or one more, and the day offset is within the month.
C27_Ord2YmdAsserts ==
    (/\ op \in {"date.fromordinal", "datetime.fromordinal"}
     /\ arg.ordinal \in 1.._MAXORDINAL) =>
        LET s == _ord2ymd_split(arg.ordinal)
            m == _ord2ymd_month(s)
        IN  /\ exc = "none"
            /\ _ord2ymd(arg.ordinal).cls = "tuple"
            /\ IF s.n1 = 4 \/ s.n100 = 4
               THEN /\ s.rem = 0
                    /\ _ord2ymd(arg.ordinal) = TupleVal(<<s.year - 1, 12, 31>>)
                    /\ <<self._year, self._month, self._day>>
                          = <<s.year - 1, 12, 31>>
               ELSE /\ m.leapyear = _is_leap(s.year)
                    /\ m.month0 - m.month \in {0, 1}
                    /\ m.month \in 1..12
                    /\ 0 <= m.rem /\ m.rem < _days_in_month(s.year, m.month)
                    /\ _days_before_month(s.year, m.month) + m.rem = s.rem
                    /\ <<self._year, self._month, self._day>>
                          = <<s.year, m.month, m.rem + 1>>

\* date.fromordinal(730485), the last day of a 400-year cycle, where the
\* 100-year quotient is 4, has given 2000-12-31.
C27_Witness ==
    /\ op = "date.fromordinal"
    /\ arg.ordinal = 730485
    /\ _ord2ymd_split(arg.ordinal).n100 = 4
    /\ _ord2ymd_split(arg.ordinal).rem = 0
    /\ <<self._year, self._month, self._day>> = <<2000, 12, 31>>


\* C30, as stated: the hash of a naive datetime is that of the 4 bytes
\* (year_hi, year_lo, month, day): two naive datetimes of one year, month
\* and day have equal hashes whatever their hour, minute, second,
\* microsecond and fold, though they compare unequal when those fields
\* differ, the fold among them.
C30_UnequalWhenFoldDiffers ==
    (/\ op = "hash"
     /\ self.cls = "datetime"
     /\ self._tzinfo = None /\ other._tzinfo = None
     /\ <<self._year, self._month, self._day>>
           = <<other._year, other._month, other._day>>) =>
        /\ exc = "none"
        /\ ret.pyval[1] = ret.pyval[2]
        /\ (datetime_fields(self) # datetime_fields(other)
              \/ self._fold # other._fold) =>
              eq(self, other) = BoolVal(FALSE)

\* C30, amended: the hash of a naive datetime is that of the 4 bytes
\* (year_hi, year_lo, month, day): two naive datetimes of one year, month
\* and day have equal hashes whatever their hour, minute, second,
\* microsecond and fold; they compare unequal when the hour, minute, second
\* or microsecond differ, and equal when only the fold differs.
C30_DatetimeHashDateOnly ==
    (/\ op = "hash"
     /\ self.cls = "datetime"
     /\ self._tzinfo = None /\ other._tzinfo = None
     /\ <<self._year, self._month, self._day>>
           = <<other._year, other._month, other._day>>) =>
        /\ exc = "none"
        /\ ret.pyval[1] = ret.pyval[2]
        /\ ret.pyval[1] = hash_bytes(<<self._year \div 256, self._year % 256,
                                        self._month, self._day>>)
        /\ self._hashcode = ret.pyval[1] /\ other._hashcode = ret.pyval[2]
        /\ eq(self, other)
              = BoolVal(datetime_fields(self) = datetime_fields(other))

\* hash(datetime(2000, 2, 28)) and
\* hash(datetime(2000, 2, 28, 11, 29, 29, 499999, fold=1)) are equal, and
\* the two datetimes are not.
C30_Witness ==
    /\ op = "hash"
    /\ self.cls = "datetime"
    /\ self._tzinfo = None /\ other._tzinfo = None
    /\ datetime_fields(self) = <<2000, 2, 28, 0, 0, 0, 0>>
    /\ datetime_fields(other) = <<2000, 2, 28, 11, 29, 29, 499999>>
    /\ self._fold = 0 /\ other._fold = 1
    /\ ret.pyval[1] = ret.pyval[2]
    /\ eq(self, other) = BoolVal(FALSE)


\* C22: a time constructed with fold=1 hashes as if fold=0: for all valid
\* (hour, minute, second, microsecond), hash(time(h, m, s, us, fold=1))
\* succeeds and equals hash(time(h, m, s, us, fold=0)).
C22_FoldedTimeHash ==
    (/\ op = "time.__hash__"
     /\ self._tzinfo = None
     /\ self._fold = 1) =>
        /\ exc = "none"
        /\ ret = time_hash([self EXCEPT !._fold = 0, !._hashcode = <<-1>>])

\* C24: datetime.fromtimestamp(ts) returns a naive datetime whose year,
\* month, day, hour, minute and second are those of the local time of ts.
C24_FromTimestamp ==
    op = "datetime.fromtimestamp" =>
        /\ exc = "none"
        /\ self.cls = "datetime"
        /\ self._tzinfo = None
        /\ <<self._year, self._month, self._day, self._hour, self._minute,
              self._second>> = SubSeq(localtime(arg.timestamp), 1, 6)

\* C25: the tzinfo attribute of a time is the object passed as the tzinfo
\* argument of the constructor, or None if none was passed.
C25_TimeTzinfo ==
    op = "time.tzinfo" =>
        /\ exc = "none"
        /\ ret = arg.tzinfo
        /\ ret = self._tzinfo

\* C26: date.fromisoformat, date.replace, datetime.fromisoformat,
\* datetime.timetuple, time.replace and time.dst raise NotImplementedError
\* on every call and return no value.
C26_DeferredOperations ==
    op \in {"date.fromisoformat", "date.replace", "datetime.fromisoformat",
            "datetime.timetuple", "time.replace", "time.dst"} =>
        /\ exc = "NotImplementedError"
        /\ ret = None


\* The hash of the 4 bytes of the year, the month and the day of x: of the
\* tuple of the bytes for a date, of the bytes for a datetime.
ClaimHash(x) ==
    IF x.cls = "datetime"
    THEN hash_bytes(<<x._year \div 256, x._year % 256, x._month, x._day>>)
    ELSE hash_tuple1(<<x._year \div 256, x._year % 256, x._month, x._day>>)

\* C21: for a date or a naive datetime, under every interleaving of the
\* calls of __hash__ on the object, each call returns the same value H, a
\* function of the fields, and the cache _hashcode holds -1 or H.
C21_HashMemoization ==
    (/\ self.cls \in {"date", "datetime"}
     /\ (self.cls = "datetime" => self._tzinfo = None)) =>
        /\ self._hashcode \in {<<-1>>, ClaimHash(self)}
        /\ \A c \in Callers :
              /\ calls[c].pc # "raised"
              /\ calls[c].pc = "store" =>
                    calls[c].local = IntVal(ClaimHash(self))
              /\ calls[c].pc = "done" =>
                    calls[c].result = IntVal(ClaimHash(self))

\* Two callers have read the unset cache of a naive datetime: the first has
\* computed, written and returned H, and the second, which has computed H
\* too, is about to write it again.
C21_Witness ==
    /\ self.cls = "datetime"
    /\ self._tzinfo = None
    /\ self._hashcode = ClaimHash(self)
    /\ calls[1].pc = "done"
    /\ calls[1].result = IntVal(ClaimHash(self))
    /\ calls[2].pc = "store"
    /\ calls[2].local = IntVal(ClaimHash(self))


\* The object x of a register is, after a step, the object y with the
\* fields it had: the step has written no field but _hashcode.
ClaimFrame(x, y) ==
    (/\ x.cls \in ValueClasses
     /\ y.cls = x.cls
     /\ y.id = x.id) =>
        [y EXCEPT !._hashcode = x._hashcode] = x

\* C28: values are immutable once constructed: no operation (attribute,
\* toordinal, weekday, isoweekday, isoformat, comparison, negation,
\* datetime + and -, hash) changes a field of an operand, but its _hashcode.
C28_Immutable == [][ClaimFrame(self, self') /\ ClaimFrame(other, other')]_vars

\* A datetime that was hashed, and then compared with another, has the
\* fields it was constructed with, and its hash in _hashcode.
C28_Witness ==
    /\ op \in CmpOps
    /\ self.cls = "datetime" /\ other.cls = "datetime"
    /\ self._hashcode # <<-1>>
    /\ datetime_fields(self) = <<arg.year, arg.month, arg.day, arg.hour,
                                 arg.minute, arg.second, arg.microsecond>>
    /\ self._tzinfo = arg.tzinfo
    /\ self._fold = arg.fold

====
